---- MODULE Spec2Model ----
(***************************************************************************)
(* Scrutiny embedded agent: framed request/response transport              *)
(* (CommHandler), command dispatcher and session (MainHandler), memory     *)
(* control block codec (CodecV1_0) and address-range policy (Config).      *)
(***************************************************************************)
EXTENDS Integers, Sequences, FiniteSets, TLC

VARIABLES
    comm,      \* CommHandler object (fields of scrutiny_comm_handler.h + session)
    main,      \* MainHandler flags: m_processing_request, m_disconnect_pending
    time,      \* Timebase::m_time_us
    mem,       \* target memory, address -> byte
    wire,      \* transport side: frame being delivered and bytes popped so far
    trace      \* record of what the last operation did (history variable)

vars == <<comm, main, time, mem, wire, trace>>

(***************************************************************************)
(* Build parameters and bounds                                             *)
(***************************************************************************)
SCRUTINY_BUFFER_SIZE == 32
SCRUTINY_COMM_TIMEOUT_US == 50000
SCRUTINY_COMM_HEARTBEAT_TMEOUT_US == 5000000
SCRUTINY_FORBIDDEN_ADDRESS_RANGE_COUNT == 4
SCRUTINY_READONLY_ADDRESS_RANGE_COUNT == 4
AddrSize == 2
MemSize == 64
MaxFrames == 3
MaxTicks == 1
MaxPop == 3
MaxSteps == 2
CollectionSize == 3
MaxCalls == 2
MaxIterations == 12

(***************************************************************************)
(* Bit-level helpers.  A uint32_t is a tuple <<b3, b2, b1, b0>> of bytes,  *)
(* most significant first; narrower integers are plain numbers.            *)
(***************************************************************************)
RECURSIVE BitXor(_, _)
BitXor(a, b) ==
    IF a = 0 THEN b
    ELSE IF b = 0 THEN a
    ELSE ((a + b) % 2) + 2 * BitXor(a \div 2, b \div 2)

RECURSIVE BitOr(_, _)
BitOr(a, b) ==
    IF a = 0 THEN b
    ELSE IF b = 0 THEN a
    ELSE (IF (a % 2) + (b % 2) > 0 THEN 1 ELSE 0) + 2 * BitOr(a \div 2, b \div 2)

Not8(b) == 255 - b

U32Zero == <<0, 0, 0, 0>>
U32Hi(v) == v[1] * 256 + v[2]
U32Lo(v) == v[3] * 256 + v[4]
U32Make(hi, lo) == <<hi \div 256, hi % 256, lo \div 256, lo % 256>>
U32Of(n) == U32Make(n \div 65536, n % 65536)
U32Not(v) == <<255 - v[1], 255 - v[2], 255 - v[3], 255 - v[4]>>

U32Add(a, b) ==
    LET lo == U32Lo(a) + U32Lo(b)
        hi == U32Hi(a) + U32Hi(b) + (lo \div 65536)
    IN  U32Make(hi % 65536, lo % 65536)

U32Sub(a, b) ==
    LET lo == U32Lo(a) - U32Lo(b)
        hi == U32Hi(a) - U32Hi(b) - (IF lo < 0 THEN 1 ELSE 0)
    IN  U32Make((hi + 65536) % 65536, (lo + 65536) % 65536)

U32Geq(a, b) == U32Hi(a) > U32Hi(b) \/ (U32Hi(a) = U32Hi(b) /\ U32Lo(a) >= U32Lo(b))

Take(s, n) == SubSeq(s, 1, n)
Drop(s, n) == SubSeq(s, n + 1, Len(s))
Min(a, b) == IF a <= b THEN a ELSE b
Max(a, b) == IF a >= b THEN a ELSE b

\* std::memcpy(&buf[off], src, Len(src)) on a 0-based offset
Memcpy(buf, off, src) ==
    [k \in 1..Len(buf) |->
        IF k > off /\ k <= off + Len(src) THEN src[k - off] ELSE buf[k]]

(***************************************************************************)
(* CRC-32 (reflected, polynomial 0xEDB88320, init and xor-out 0xFFFFFFFF)  *)
(***************************************************************************)
RECURSIVE CrcShift(_, _, _)
CrcShift(hi, lo, n) ==
    IF n = 0 THEN U32Make(hi, lo)
    ELSE LET lo1 == (lo \div 2) + (hi % 2) * 32768
             hi1 == hi \div 2
         IN  IF lo % 2 = 1
             THEN CrcShift(BitXor(hi1, 60856), BitXor(lo1, 33568), n - 1)
             ELSE CrcShift(hi1, lo1, n - 1)

CrcTable == [n \in 0..255 |-> CrcShift(0, n, 8)]

\* one table-driven step: crc = table[(crc ^ byte) & 0xFF] ^ (crc >> 8)
CrcByte(c, byte) ==
    LET t == CrcTable[BitXor(c[4], byte)]
    IN  <<t[1], BitXor(t[2], c[1]), BitXor(t[3], c[2]), BitXor(t[4], c[3])>>

\* the byte loop over data[k..]; c is the running 32-bit remainder
RECURSIVE CrcUpdate(_, _, _)
CrcUpdate(c, data, k) ==
    IF Len(c) = 4 /\ k <= Len(data)
    THEN CrcUpdate(CrcByte(c, data[k]), data, k + 1)
    ELSE c

crc32(data, start_value) == U32Not(CrcUpdate(U32Not(start_value), data, 1))

(***************************************************************************)
(* Timebase                                                                *)
(***************************************************************************)
step(now, timestep_us) == U32Add(now, timestep_us)

\* variant of is_elapsed that compares the counter with timestamp + timeout
is_elapsed_no_wrap(now, timestamp, timeout_us) == U32Geq(now, U32Add(timestamp, timeout_us))

\* variant of is_elapsed in which no timeout ever expires
is_elapsed_never(now, timestamp, timeout_us) == FALSE

is_elapsed(now, timestamp, timeout_us) == U32Geq(U32Sub(now, timestamp), timeout_us)

(***************************************************************************)
(* Protocol definitions                                                    *)
(***************************************************************************)
eCmdGetInfo == 1
eCmdCommControl == 2
eCmdMemoryControl == 3
eCmdDataLogControl == 4
eCmdUserCommand == 5

eResponseCode_OK == 0
eResponseCode_InvalidRequest == 1
eResponseCode_UnsupportedFeature == 2
eResponseCode_Overflow == 3
eResponseCode_Busy == 4
eResponseCode_FailureToProceed == 5
eResponseCode_Forbidden == 6

eSubfnGetProtocolVersion == 1
eSubfnGetSoftwareId == 2
eSubfnGetSupportedFeatures == 3

eSubfnDiscover == 1
eSubfnHeartbeat == 2
eSubfnGetParams == 3
eSubfnConnect == 4
eSubfnDisconnect == 5

eSubfnRead == 1
eSubfnWrite == 2

DISCOVER_MAGIC == <<126, 24, 252, 104>>
CONNECT_MAGIC == <<130, 144, 34, 102>>
software_id == <<0, 1, 2, 3, 4, 5, 6, 7, 8, 9, 10, 11, 12, 13, 14, 15>>
PROTOCOL_VERSION_MAJOR == 1
PROTOCOL_VERSION_MINOR == 0

\* Request::reset / Response::reset: the data pointer and the crc are left alone
RequestReset(req) ==
    [req EXCEPT !.command_id = 0, !.subfunction_id = 0, !.data_length = 0, !.valid = FALSE]

ResponseReset(resp) ==
    [resp EXCEPT !.command_id = 0, !.subfunction_id = 0, !.response_code = 0,
                 !.data_length = 0, !.valid = FALSE]

(***************************************************************************)
(* CommHandler                                                             *)
(***************************************************************************)
reset_rx(c, now) ==
    [c EXCEPT !.m_active_request = RequestReset(@),
              !.m_rx_state = "WaitForCommand",
              !.m_request_received = FALSE,
              !.m_crc_bytes_received = 0,
              !.m_length_bytes_received = 0,
              !.m_data_bytes_received = 0,
              !.m_rx_error = "None",
              !.m_last_rx_timestamp = now,
              !.m_state = IF @ = "Receiving" THEN "Idle" ELSE @]

reset_tx(c) ==
    [c EXCEPT !.m_active_response = ResponseReset(@),
              !.m_nbytes_to_send = 0,
              !.m_nbytes_sent = 0,
              !.m_tx_error = "None",
              !.m_state = IF @ = "Transmitting" THEN "Idle" ELSE @]

reset(c, now) ==
    reset_tx(reset_rx([c EXCEPT !.m_state = "Idle",
                                !.m_buffer = [k \in 1..SCRUTINY_BUFFER_SIZE |-> 0]], now))

\* state after CommHandler::init; the session fields start cleared
CommInit(now) ==
    reset([m_state |-> "Idle",
           m_enabled |-> FALSE,
           m_buffer |-> [k \in 1..SCRUTINY_BUFFER_SIZE |-> 0],
           m_active_request |-> [command_id |-> 0, subfunction_id |-> 0, data_length |-> 0,
                                 crc |-> U32Zero, valid |-> FALSE],
           m_active_response |-> [command_id |-> 0, subfunction_id |-> 0, response_code |-> 0,
                                  data_length |-> 0, crc |-> U32Zero, valid |-> FALSE],
           m_rx_state |-> "WaitForCommand",
           m_rx_error |-> "None",
           m_tx_error |-> "None",
           m_request_received |-> FALSE,
           m_crc_bytes_received |-> 0,
           m_length_bytes_received |-> 0,
           m_data_bytes_received |-> 0,
           m_last_rx_timestamp |-> now,
           m_nbytes_to_send |-> 0,
           m_nbytes_sent |-> 0,
           connected |-> FALSE,
           session_id |-> U32Zero,
           last_heartbeat_ts |-> now], now)

RequestData(c) == Take(c.m_buffer, Min(c.m_active_request.data_length, SCRUTINY_BUFFER_SIZE))

check_crc(c) ==
    LET req == c.m_active_request
        header_data == <<req.command_id, req.subfunction_id,
                         (req.data_length \div 256) % 256, req.data_length % 256>>
        crc == crc32(RequestData(c), crc32(header_data, U32Zero))
    IN  crc = req.crc

check_must_enable(c) ==
    LET req == c.m_active_request
    IN  /\ req.command_id = eCmdCommControl
        /\ req.subfunction_id = eSubfnDiscover
        /\ req.data_length >= Len(DISCOVER_MAGIC)
        /\ Take(c.m_buffer, Len(DISCOVER_MAGIC)) = DISCOVER_MAGIC

\* variant of rx_overflow that lets any announced length through
rx_overflow_never(req) == FALSE

\* CommHandler::process_data, case eRxStateWaitForData: the announced length
\* does not fit the buffer
rx_overflow(req) == req.data_length > SCRUTINY_BUFFER_SIZE

\* the byte loop of CommHandler::process_data; i counts the bytes consumed
RECURSIVE rx_loop(_, _, _, _)
rx_loop(c, data, i, now) ==
    IF ~(i < Len(data) /\ ~c.m_request_received /\ c.m_rx_state # "Error") THEN c
    ELSE LET req == c.m_active_request
             b == data[i + 1]
         IN
         CASE c.m_rx_state = "WaitForCommand" ->
                rx_loop([c EXCEPT !.m_active_request.command_id = b % 128,
                                  !.m_rx_state = "WaitForSubfunction"], data, i + 1, now)
           [] c.m_rx_state = "WaitForSubfunction" ->
                rx_loop([c EXCEPT !.m_active_request.subfunction_id = b,
                                  !.m_rx_state = "WaitForLength"], data, i + 1, now)
           [] c.m_rx_state = "WaitForLength" ->
                LET two == c.m_length_bytes_received = 0 /\ Len(data) - i >= 2
                    dl == IF c.m_length_bytes_received = 0
                          THEN (IF two THEN BitOr(b * 256, data[i + 2]) ELSE b * 256)
                          ELSE BitOr(req.data_length, b)
                    next_state == two \/ c.m_length_bytes_received # 0
                    c1 == [c EXCEPT !.m_active_request.data_length = dl,
                                    !.m_length_bytes_received = IF next_state THEN 2 ELSE 1,
                                    !.m_rx_state = IF ~next_state THEN @
                                                   ELSE IF dl = 0 THEN "WaitForCRC"
                                                   ELSE "WaitForData"]
                IN  rx_loop(c1, data, IF two THEN i + 2 ELSE i + 1, now)
           [] c.m_rx_state = "WaitForData" ->
                IF rx_overflow(req)
                THEN rx_loop([c EXCEPT !.m_rx_error = "Overflow", !.m_rx_state = "Error"],
                             data, i, now)
                ELSE LET available_bytes == (Len(data) - i) % 65536
                         missing_bytes == req.data_length - c.m_data_bytes_received
                         data_bytes_to_read == IF available_bytes >= missing_bytes
                                               THEN missing_bytes ELSE available_bytes
                         received == c.m_data_bytes_received + data_bytes_to_read
                         c1 == [c EXCEPT !.m_buffer = Memcpy(@, c.m_data_bytes_received,
                                                SubSeq(data, i + 1, i + data_bytes_to_read)),
                                         !.m_data_bytes_received = received,
                                         !.m_rx_state = IF received >= req.data_length
                                                        THEN "WaitForCRC" ELSE @]
                     IN  rx_loop(c1, data, i + data_bytes_to_read, now)
           [] c.m_rx_state = "WaitForCRC" ->
                LET n == c.m_crc_bytes_received
                    crc == IF n = 0 THEN <<b, 0, 0, 0>>
                           ELSE IF n \in 1..3 THEN [req.crc EXCEPT ![n + 1] = BitOr(@, b)]
                           ELSE req.crc
                    c1 == [c EXCEPT !.m_active_request.crc = crc]
                    c2 == IF n # 3 THEN c1
                          ELSE LET c3 == [c1 EXCEPT !.m_state = "Idle"]
                                   c4 == IF ~c3.m_enabled /\ check_crc(c3) /\ check_must_enable(c3)
                                         THEN [c3 EXCEPT !.m_enabled = TRUE] ELSE c3
                               IN  IF check_crc(c3) /\ c4.m_enabled
                                   THEN [c4 EXCEPT !.m_active_request.valid = TRUE,
                                                   !.m_rx_state = "WaitForProcess",
                                                   !.m_request_received = TRUE]
                                   ELSE reset_rx(c4, now)
                IN  rx_loop([c2 EXCEPT !.m_crc_bytes_received = (@ + 1) % 256],
                            data, i + 1, now)
           [] OTHER -> c

\* variant of process_data that never gives up a partial frame
process_data_no_rx_timeout(c, data, now) ==
    IF c.m_state = "Transmitting" THEN c
    ELSE LET len == Len(data)
             c2 == IF len # 0
                   THEN [c EXCEPT !.m_last_rx_timestamp = now,
                                  !.m_state = IF @ = "Idle" THEN "Receiving" ELSE @]
                   ELSE c
         IN  rx_loop(c2, data, 0, now)

\* variant of process_data that also parses while a response is being sent
process_data_full_duplex(c, data, now) ==
    LET len == Len(data)
        c1 == IF /\ c.m_rx_state # "WaitForCommand"
                 /\ len # 0
                 /\ is_elapsed(now, c.m_last_rx_timestamp, U32Of(SCRUTINY_COMM_TIMEOUT_US))
              THEN [reset_rx(c, now) EXCEPT !.m_state = "Idle"]
              ELSE c
        c2 == IF len # 0
              THEN [c1 EXCEPT !.m_last_rx_timestamp = now,
                              !.m_state = IF @ = "Idle" THEN "Receiving" ELSE @]
              ELSE c1
    IN  rx_loop(c2, data, 0, now)

process_data(c, data, now) ==
    IF c.m_state = "Transmitting" THEN c
    ELSE LET len == Len(data)
             c1 == IF /\ c.m_rx_state # "WaitForCommand"
                      /\ len # 0
                      /\ is_elapsed(now, c.m_last_rx_timestamp, U32Of(SCRUTINY_COMM_TIMEOUT_US))
                   THEN [reset_rx(c, now) EXCEPT !.m_state = "Idle"]
                   ELSE c
             c2 == IF len # 0
                   THEN [c1 EXCEPT !.m_last_rx_timestamp = now,
                                   !.m_state = IF @ = "Idle" THEN "Receiving" ELSE @]
                   ELSE c1
         IN  rx_loop(c2, data, 0, now)

\* MainHandler::receive_data forwards the bytes to the CommHandler
receive_data(c, data, now) == process_data(c, data, now)

prepare_response(c) == [c EXCEPT !.m_active_response = ResponseReset(@)]

ResponseData(c, resp) == Take(c.m_buffer, Min(resp.data_length, SCRUTINY_BUFFER_SIZE))

\* variant of add_crc whose CRC covers the header but not the payload
add_crc_header_only(c, response) ==
    IF response.data_length > SCRUTINY_BUFFER_SIZE THEN response
    ELSE LET header == <<response.command_id, response.subfunction_id, response.response_code,
                         (response.data_length \div 256) % 256, response.data_length % 256>>
         IN  [response EXCEPT !.crc = crc32(header, U32Zero)]

add_crc(c, response) ==
    IF response.data_length > SCRUTINY_BUFFER_SIZE THEN response
    ELSE LET header == <<response.command_id, response.subfunction_id, response.response_code,
                         (response.data_length \div 256) % 256, response.data_length % 256>>
         IN  [response EXCEPT !.crc = crc32(ResponseData(c, response), crc32(header, U32Zero))]

\* variant of send_response without the enable gate
send_response_ungated(c, response) ==
    IF c.m_state # "Idle" THEN [comm |-> [c EXCEPT !.m_tx_error = "Busy"], ok |-> FALSE]
    ELSE IF response.data_length > SCRUTINY_BUFFER_SIZE
         THEN [comm |-> [reset_tx(c) EXCEPT !.m_tx_error = "Overflow"], ok |-> FALSE]
    ELSE LET r1 == [c.m_active_response EXCEPT
                        !.command_id = BitOr(response.command_id, 128),
                        !.subfunction_id = response.subfunction_id,
                        !.response_code = response.response_code,
                        !.data_length = response.data_length]
             r2 == add_crc(c, r1)
         IN  [comm |-> [c EXCEPT !.m_active_response = r2,
                                 !.m_nbytes_to_send = 1 + 1 + 1 + 2 + r2.data_length + 4,
                                 !.m_state = "Transmitting"],
              ok |-> TRUE]

\* variant of send_response without the half-duplex test
send_response_no_busy(c, response) ==
    IF c.m_enabled = FALSE THEN [comm |-> c, ok |-> FALSE]
    ELSE IF response.data_length > SCRUTINY_BUFFER_SIZE
         THEN [comm |-> [reset_tx(c) EXCEPT !.m_tx_error = "Overflow"], ok |-> FALSE]
    ELSE LET r1 == [c.m_active_response EXCEPT
                        !.command_id = BitOr(response.command_id, 128),
                        !.subfunction_id = response.subfunction_id,
                        !.response_code = response.response_code,
                        !.data_length = response.data_length]
             r2 == add_crc(c, r1)
         IN  [comm |-> [c EXCEPT !.m_active_response = r2,
                                 !.m_nbytes_to_send = 1 + 1 + 1 + 2 + r2.data_length + 4,
                                 !.m_nbytes_sent = 0,
                                 !.m_state = "Transmitting"],
              ok |-> TRUE]

\* returns the handler and the boolean result
send_response(c, response) ==
    IF c.m_enabled = FALSE THEN [comm |-> c, ok |-> FALSE]
    ELSE IF c.m_state # "Idle" THEN [comm |-> [c EXCEPT !.m_tx_error = "Busy"], ok |-> FALSE]
    ELSE IF response.data_length > SCRUTINY_BUFFER_SIZE
         THEN [comm |-> [reset_tx(c) EXCEPT !.m_tx_error = "Overflow"], ok |-> FALSE]
    ELSE LET r1 == [c.m_active_response EXCEPT
                        !.command_id = BitOr(response.command_id, 128),
                        !.subfunction_id = response.subfunction_id,
                        !.response_code = response.response_code,
                        !.data_length = response.data_length]
             r2 == add_crc(c, r1)
         IN  [comm |-> [c EXCEPT !.m_active_response = r2,
                                 !.m_nbytes_to_send = 1 + 1 + 1 + 2 + r2.data_length + 4,
                                 !.m_state = "Transmitting"],
              ok |-> TRUE]

data_to_send(c) ==
    IF c.m_state # "Transmitting" THEN 0 ELSE c.m_nbytes_to_send - c.m_nbytes_sent

\* returns the handler and the bytes copied to the caller's buffer
pop_data(c, len0) ==
    IF c.m_state # "Transmitting" THEN [comm |-> c, buffer |-> <<>>]
    ELSE LET resp == c.m_active_response
             nbytes_to_send == c.m_nbytes_to_send - c.m_nbytes_sent
             len == IF len0 > nbytes_to_send THEN nbytes_to_send ELSE len0
             header == <<resp.command_id, resp.subfunction_id, resp.response_code,
                         (resp.data_length \div 256) % 256, resp.data_length % 256>>
             n1 == IF c.m_nbytes_sent < 5 THEN Min(5 - c.m_nbytes_sent, len) ELSE 0
             out1 == SubSeq(header, c.m_nbytes_sent + 1, c.m_nbytes_sent + n1)
             sent1 == c.m_nbytes_sent + n1
             remaining_data_bytes == Max(resp.data_length - (sent1 - 5), 0)
             data_bytes_to_copy == Min(remaining_data_bytes, len - n1)
             first == resp.data_length - remaining_data_bytes
             out2 == SubSeq(c.m_buffer, first + 1, first + data_bytes_to_copy)
             sent2 == sent1 + data_bytes_to_copy
             i2 == n1 + data_bytes_to_copy
             crc_position == resp.data_length + 5
             n3 == IF sent2 >= crc_position /\ sent2 <= crc_position + 3
                   THEN Min(len - i2, crc_position + 4 - sent2) ELSE 0
             out3 == SubSeq(resp.crc, sent2 - crc_position + 1, sent2 - crc_position + n3)
             sent3 == sent2 + n3
             c1 == [c EXCEPT !.m_nbytes_sent = sent3]
         IN  [comm |-> IF sent3 >= c.m_nbytes_to_send THEN reset_tx(c1) ELSE c1,
              buffer |-> out1 \o out2 \o out3]

(***************************************************************************)
(* Session and housekeeping operations of the CommHandler                  *)
(***************************************************************************)
is_connected(c) == c.connected

get_session_id(c) == c.session_id

\* fails if already connected; id is the freshly generated non-zero session id
connect(c, id, now) ==
    IF c.connected THEN [comm |-> c, ok |-> FALSE]
    ELSE [comm |-> [c EXCEPT !.connected = TRUE, !.session_id = id,
                             !.last_heartbeat_ts = now],
          ok |-> TRUE]

disconnect(c) == [c EXCEPT !.connected = FALSE, !.session_id = U32Zero]

heartbeat(c, challenge, now) ==
    IF ~c.connected THEN [comm |-> c, ok |-> FALSE]
    ELSE [comm |-> [c EXCEPT !.last_heartbeat_ts = now], ok |-> TRUE]

\* CommHandler::process: timeout housekeeping
comm_process(c, now) ==
    IF c.connected /\ is_elapsed(now, c.last_heartbeat_ts, U32Of(SCRUTINY_COMM_HEARTBEAT_TMEOUT_US))
    THEN disconnect(c)
    ELSE c

wait_next_request(c, now) == reset_rx(c, now)

transmitting(c) == c.m_state = "Transmitting"

tx_buffer_size == SCRUTINY_BUFFER_SIZE

(***************************************************************************)
(* Fixed-layout big-endian encoders and decoders; off is a 0-based offset  *)
(***************************************************************************)
decode_16_bits_big_endian(buf, off) == buf[off + 1] * 256 + buf[off + 2]

encode_16_bits_big_endian(value) == <<(value \div 256) % 256, value % 256>>

decode_32_bits_big_endian(buf, off) == <<buf[off + 1], buf[off + 2], buf[off + 3], buf[off + 4]>>

encode_32_bits_big_endian(value) == value

\* variant of decode_address_big_endian that reads the low byte first
decode_address_little_endian(buf, off) ==
    LET acc[k \in 0..AddrSize] == IF k = 0 THEN 0
                                  ELSE acc[k - 1] * 256 + buf[off + AddrSize + 1 - k]
    IN  acc[AddrSize]

decode_address_big_endian(buf, off) ==
    LET acc[k \in 0..AddrSize] == IF k = 0 THEN 0 ELSE acc[k - 1] * 256 + buf[off + k]
    IN  acc[AddrSize]

encode_address_big_endian(addr) ==
    LET digit[k \in 0..AddrSize] == IF k = 0 THEN addr ELSE digit[k - 1] \div 256
    IN  [k \in 1..AddrSize |-> digit[AddrSize - k] % 256]

(***************************************************************************)
(* Target memory: MemSize mapped bytes; other addresses read as 0 and      *)
(* ignore writes                                                           *)
(***************************************************************************)
MemRead(m, addr, length) ==
    [k \in 1..length |-> IF addr + k - 1 \in DOMAIN m THEN m[addr + k - 1] ELSE 0]

MemWrite(m, addr, bytes) ==
    [a \in DOMAIN m |-> IF a >= addr /\ a < addr + Len(bytes) THEN bytes[a - addr + 1] ELSE m[a]]

(***************************************************************************)
(* Config                                                                  *)
(***************************************************************************)
ConfigClear ==
    [max_bitrate |-> U32Zero,
     m_forbidden_address_ranges |->
        [i \in 1..SCRUTINY_FORBIDDEN_ADDRESS_RANGE_COUNT |-> [start |-> 0, end |-> 0, set |-> FALSE]],
     m_readonly_address_ranges |->
        [i \in 1..SCRUTINY_READONLY_ADDRESS_RANGE_COUNT |-> [start |-> 0, end |-> 0, set |-> FALSE]],
     m_forbidden_range_count |-> 0,
     m_readonly_range_count |-> 0]

add_forbidden_address_range(cfg, start, end) ==
    IF cfg.m_forbidden_range_count >= SCRUTINY_FORBIDDEN_ADDRESS_RANGE_COUNT THEN cfg
    ELSE [cfg EXCEPT !.m_forbidden_address_ranges[cfg.m_forbidden_range_count + 1] =
                          [start |-> start, end |-> end, set |-> TRUE],
                     !.m_forbidden_range_count = @ + 1]

add_readonly_address_range(cfg, start, end) ==
    IF cfg.m_readonly_range_count >= SCRUTINY_READONLY_ADDRESS_RANGE_COUNT THEN cfg
    ELSE [cfg EXCEPT !.m_readonly_address_ranges[cfg.m_readonly_range_count + 1] =
                          [start |-> start, end |-> end, set |-> TRUE],
                     !.m_readonly_range_count = @ + 1]

\* the scan over ranges[i..]: stops at the first entry that is not set
RECURSIVE touches_range(_, _, _, _, _)
touches_range(ranges, count, i, block_start, block_end) ==
    IF i > count THEN FALSE
    ELSE IF ~ranges[i].set THEN FALSE
    ELSE IF block_start >= ranges[i].start /\ block_start <= ranges[i].end THEN TRUE
    ELSE IF block_end >= ranges[i].start /\ block_end <= ranges[i].end THEN TRUE
    ELSE touches_range(ranges, count, i + 1, block_start, block_end)

touches_forbidden_region(cfg, block) ==
    touches_range(cfg.m_forbidden_address_ranges, SCRUTINY_FORBIDDEN_ADDRESS_RANGE_COUNT, 1,
                  block.start_address, block.start_address + block.length)

\* variant of touches_readonly_region that finds no read-only range
touches_readonly_never(cfg, block) == FALSE

touches_readonly_region(cfg, block) ==
    touches_range(cfg.m_readonly_address_ranges, SCRUTINY_READONLY_ADDRESS_RANGE_COUNT, 1,
                  block.start_address, block.start_address + block.length)

(***************************************************************************)
(* CodecV1_0: memory-control block parsers and encoders.  The parsers read *)
(* request.data and the encoders write response.data, which are the same   *)
(* buffer (CommHandler::init).                                             *)
(***************************************************************************)
RECURSIVE ReadParser_validate(_, _, _)
ReadParser_validate(buf, m_size_limit, cursor) ==
    IF cursor + AddrSize + 2 > m_size_limit THEN FALSE
    ELSE IF cursor + AddrSize + 2 = m_size_limit THEN TRUE
    ELSE ReadParser_validate(buf, m_size_limit, cursor + AddrSize + 2)

ReadParser_next(buf, m_size_limit, m_bytes_read) ==
    IF m_bytes_read + AddrSize + 2 > m_size_limit
    THEN [m_finished |-> TRUE, m_invalid |-> TRUE, m_bytes_read |-> m_bytes_read,
          block |-> [start_address |-> 0, length |-> 0]]
    ELSE [m_finished |-> m_bytes_read + AddrSize + 2 = m_size_limit,
          m_invalid |-> FALSE,
          m_bytes_read |-> m_bytes_read + AddrSize + 2,
          block |-> [start_address |-> decode_address_big_endian(buf, m_bytes_read),
                     length |-> decode_16_bits_big_endian(buf, m_bytes_read + AddrSize)]]

\* variant of WriteParser_validate that accepts every payload
WriteParser_validate_all(buf, m_size_limit, cursor) == TRUE

RECURSIVE WriteParser_validate(_, _, _)
WriteParser_validate(buf, m_size_limit, cursor) ==
    IF cursor + AddrSize + 2 > m_size_limit THEN FALSE
    ELSE LET cursor1 == cursor + AddrSize + 2 + decode_16_bits_big_endian(buf, cursor + AddrSize)
         IN  IF cursor1 > m_size_limit THEN FALSE
             ELSE IF cursor1 = m_size_limit THEN TRUE
             ELSE WriteParser_validate(buf, m_size_limit, cursor1)

WriteParser_next(buf, m_size_limit, m_bytes_read) ==
    LET none == [start_address |-> 0, length |-> 0, source_data |-> 0]
    IN  IF m_bytes_read + AddrSize + 2 > m_size_limit
        THEN [m_finished |-> TRUE, m_invalid |-> TRUE, m_bytes_read |-> m_bytes_read, block |-> none]
        ELSE LET addr == decode_address_big_endian(buf, m_bytes_read)
                 length == decode_16_bits_big_endian(buf, m_bytes_read + AddrSize)
                 read1 == m_bytes_read + AddrSize + 2
             IN  IF read1 + length > m_size_limit
                 THEN [m_finished |-> TRUE, m_invalid |-> TRUE, m_bytes_read |-> read1,
                       block |-> none]
                 ELSE [m_finished |-> read1 + length = m_size_limit,
                       m_invalid |-> FALSE,
                       m_bytes_read |-> read1 + length,
                       block |-> [start_address |-> addr, length |-> length,
                                  source_data |-> read1]]

\* ReadMemoryBlocksResponseEncoder::write on the handler's buffer and response
ReadEncoder_write(c, m, m_cursor, m_size_limit, memblock) ==
    IF m_cursor + AddrSize + 2 + memblock.length > m_size_limit
    THEN [comm |-> c, m_cursor |-> m_cursor, m_overflow |-> TRUE]
    ELSE LET bytes == encode_address_big_endian(memblock.start_address)
                      \o encode_16_bits_big_endian(memblock.length)
                      \o MemRead(m, memblock.start_address, memblock.length)
             cursor1 == m_cursor + Len(bytes)
         IN  [comm |-> [c EXCEPT !.m_buffer = Memcpy(@, m_cursor, bytes),
                                 !.m_active_response.data_length = cursor1 % 65536],
              m_cursor |-> cursor1, m_overflow |-> FALSE]

WriteEncoder_write(c, m_cursor, m_size_limit, memblock) ==
    IF m_cursor + AddrSize + 2 > m_size_limit
    THEN [comm |-> c, m_cursor |-> m_cursor, m_overflow |-> TRUE]
    ELSE LET bytes == encode_address_big_endian(memblock.start_address)
                      \o encode_16_bits_big_endian(memblock.length)
             cursor1 == m_cursor + Len(bytes)
         IN  [comm |-> [c EXCEPT !.m_buffer = Memcpy(@, m_cursor, bytes),
                                 !.m_active_response.data_length = cursor1 % 65536],
              m_cursor |-> cursor1, m_overflow |-> FALSE]

\* the fixed-layout response encoders: payload at data[0..], data_length set
encode_response(c, bytes) ==
    IF Len(bytes) > SCRUTINY_BUFFER_SIZE
    THEN [comm |-> c, code |-> eResponseCode_FailureToProceed]
    ELSE [comm |-> [c EXCEPT !.m_buffer = Memcpy(@, 0, bytes),
                             !.m_active_response.data_length = Len(bytes)],
          code |-> eResponseCode_OK]

(***************************************************************************)
(* MainHandler.  x is the agent: [comm, main, mem] plus the log of the     *)
(* target-memory accesses made by the request being processed.             *)
(***************************************************************************)
Result(x, code) == [x |-> x, code |-> code]

WithComm(x, r) == Result([x EXCEPT !.comm = r.comm], r.code)

\* Read loop of process_memory_control (lines 278-300)
RECURSIVE read_blocks(_, _, _)
read_blocks(x, m_bytes_read, m_cursor) ==
    LET p == ReadParser_next(x.comm.m_buffer, x.comm.m_active_request.data_length, m_bytes_read)
    IN  IF p.m_invalid THEN Result(x, eResponseCode_InvalidRequest)
        ELSE IF touches_forbidden_region(x.main.m_config, p.block)
             THEN Result(x, eResponseCode_Forbidden)
        ELSE LET e == ReadEncoder_write(x.comm, x.mem, m_cursor, tx_buffer_size, p.block)
                 x1 == [x EXCEPT !.comm = e.comm,
                                 !.reads = Append(@, <<p.block.start_address, p.block.length>>)]
             IN  IF e.m_overflow THEN Result(x, eResponseCode_Overflow)
                 ELSE IF p.m_finished THEN Result(x1, eResponseCode_OK)
                 ELSE read_blocks(x1, p.m_bytes_read, e.m_cursor)

\* variant of write_blocks that copies a block before it checks it
RECURSIVE write_blocks_copy_first(_, _, _)
write_blocks_copy_first(x, m_bytes_read, m_cursor) ==
    LET p == WriteParser_next(x.comm.m_buffer, x.comm.m_active_request.data_length, m_bytes_read)
    IN  IF p.m_invalid THEN Result(x, eResponseCode_InvalidRequest)
        ELSE LET e == WriteEncoder_write(x.comm, m_cursor, tx_buffer_size, p.block)
                 src == SubSeq(x.comm.m_buffer, p.block.source_data + 1,
                               p.block.source_data + p.block.length)
                 x1 == [x EXCEPT !.comm = e.comm,
                                 !.mem = MemWrite(@, p.block.start_address, src),
                                 !.writes = Append(@, <<p.block.start_address, p.block.length>>)]
             IN  IF touches_forbidden_region(x.main.m_config, p.block)
                 THEN Result([x EXCEPT !.mem = x1.mem], eResponseCode_Forbidden)
                 ELSE IF touches_readonly_region(x.main.m_config, p.block)
                 THEN Result([x EXCEPT !.mem = x1.mem], eResponseCode_Forbidden)
                 ELSE IF e.m_overflow THEN Result(x, eResponseCode_Overflow)
                 ELSE IF p.m_finished THEN Result(x1, eResponseCode_OK)
                 ELSE write_blocks_copy_first(x1, p.m_bytes_read, e.m_cursor)

\* Write loop of process_memory_control (lines 317-348)
RECURSIVE write_blocks(_, _, _)
write_blocks(x, m_bytes_read, m_cursor) ==
    LET p == WriteParser_next(x.comm.m_buffer, x.comm.m_active_request.data_length, m_bytes_read)
    IN  IF p.m_invalid THEN Result(x, eResponseCode_InvalidRequest)
        ELSE IF touches_forbidden_region(x.main.m_config, p.block)
             THEN Result(x, eResponseCode_Forbidden)
        ELSE IF touches_readonly_region(x.main.m_config, p.block)
             THEN Result(x, eResponseCode_Forbidden)
        ELSE LET e == WriteEncoder_write(x.comm, m_cursor, tx_buffer_size, p.block)
                 src == SubSeq(e.comm.m_buffer, p.block.source_data + 1,
                               p.block.source_data + p.block.length)
                 x1 == [x EXCEPT !.comm = e.comm,
                                 !.mem = MemWrite(@, p.block.start_address, src),
                                 !.writes = Append(@, <<p.block.start_address, p.block.length>>)]
             IN  IF e.m_overflow THEN Result(x, eResponseCode_Overflow)
                 ELSE IF p.m_finished THEN Result(x1, eResponseCode_OK)
                 ELSE write_blocks(x1, p.m_bytes_read, e.m_cursor)

process_memory_control(x) ==
    LET req == x.comm.m_active_request
        x0 == [x EXCEPT !.comm.m_active_response.data_length = 0]
    IN  CASE req.subfunction_id = eSubfnRead ->
                IF ~ReadParser_validate(x.comm.m_buffer, req.data_length, 0)
                THEN Result(x0, eResponseCode_InvalidRequest)
                ELSE read_blocks(x0, 0, 0)
          [] req.subfunction_id = eSubfnWrite ->
                IF ~WriteParser_validate(x.comm.m_buffer, req.data_length, 0)
                THEN Result(x0, eResponseCode_InvalidRequest)
                ELSE write_blocks(x0, 0, 0)
          [] OTHER ->
                Result([x EXCEPT !.comm.m_active_response.response_code =
                                      eResponseCode_UnsupportedFeature],
                       eResponseCode_FailureToProceed)

process_get_info(x) ==
    LET req == x.comm.m_active_request
    IN  CASE req.subfunction_id = eSubfnGetProtocolVersion ->
                WithComm(x, encode_response(x.comm,
                                <<PROTOCOL_VERSION_MAJOR, PROTOCOL_VERSION_MINOR>>))
          [] req.subfunction_id = eSubfnGetSoftwareId ->
                WithComm(x, encode_response(x.comm, software_id))
          [] req.subfunction_id = eSubfnGetSupportedFeatures ->
                Result(x, eResponseCode_FailureToProceed)
          [] OTHER ->
                Result([x EXCEPT !.comm.m_active_response.response_code =
                                      eResponseCode_UnsupportedFeature],
                       eResponseCode_FailureToProceed)

\* CommControl, Discover (lines 148-160)
comm_control_discover(x) ==
    LET req == x.comm.m_active_request
        challenge == SubSeq(x.comm.m_buffer, Len(DISCOVER_MAGIC) + 1, Len(DISCOVER_MAGIC) + 4)
        challenge_response == [i \in 1..4 |-> Not8(challenge[i])]
    IN  IF req.data_length # Len(DISCOVER_MAGIC) + 4
        THEN Result(x, eResponseCode_InvalidRequest)
        ELSE WithComm(x, encode_response(x.comm, DISCOVER_MAGIC \o challenge_response))

\* variant of comm_control_heartbeat without the session id comparison
comm_control_heartbeat_any_id(x, now) ==
    LET req == x.comm.m_active_request
        challenge == decode_16_bits_big_endian(x.comm.m_buffer, 4)
        h == heartbeat(x.comm, challenge, now)
    IN  IF req.data_length # 4 + 2
        THEN Result(x, eResponseCode_InvalidRequest)
        ELSE IF ~h.ok
        THEN Result([x EXCEPT !.comm = h.comm], eResponseCode_InvalidRequest)
        ELSE WithComm(x, encode_response(h.comm,
                 encode_32_bits_big_endian(get_session_id(h.comm))
                 \o encode_16_bits_big_endian(65535 - challenge)))

\* variant of comm_control_heartbeat that echoes the challenge unchanged
comm_control_heartbeat_echo(x, now) ==
    LET req == x.comm.m_active_request
        session_id == decode_32_bits_big_endian(x.comm.m_buffer, 0)
        challenge == decode_16_bits_big_endian(x.comm.m_buffer, 4)
        h == heartbeat(x.comm, challenge, now)
    IN  IF req.data_length # 4 + 2
        THEN Result(x, eResponseCode_InvalidRequest)
        ELSE IF session_id # get_session_id(x.comm)
        THEN Result(x, eResponseCode_InvalidRequest)
        ELSE IF ~h.ok
        THEN Result([x EXCEPT !.comm = h.comm], eResponseCode_InvalidRequest)
        ELSE WithComm(x, encode_response(h.comm,
                 encode_32_bits_big_endian(get_session_id(h.comm))
                 \o encode_16_bits_big_endian(challenge)))

\* CommControl, Heartbeat (lines 163-186)
comm_control_heartbeat(x, now) ==
    LET req == x.comm.m_active_request
        session_id == decode_32_bits_big_endian(x.comm.m_buffer, 0)
        challenge == decode_16_bits_big_endian(x.comm.m_buffer, 4)
        h == heartbeat(x.comm, challenge, now)
    IN  IF req.data_length # 4 + 2
        THEN Result(x, eResponseCode_InvalidRequest)
        ELSE IF session_id # get_session_id(x.comm)
        THEN Result(x, eResponseCode_InvalidRequest)
        ELSE IF ~h.ok
        THEN Result([x EXCEPT !.comm = h.comm], eResponseCode_InvalidRequest)
        ELSE WithComm(x, encode_response(h.comm,
                 encode_32_bits_big_endian(get_session_id(h.comm))
                 \o encode_16_bits_big_endian(65535 - challenge)))

\* CommControl, GetParams (lines 189-196)
comm_control_get_params(x) ==
    WithComm(x, encode_response(x.comm,
          encode_16_bits_big_endian(SCRUTINY_BUFFER_SIZE)
          \o encode_16_bits_big_endian(SCRUTINY_BUFFER_SIZE)
          \o encode_32_bits_big_endian(x.main.m_config.max_bitrate)
          \o encode_32_bits_big_endian(U32Of(SCRUTINY_COMM_HEARTBEAT_TMEOUT_US))
          \o encode_32_bits_big_endian(U32Of(SCRUTINY_COMM_TIMEOUT_US))))

\* variant of comm_control_connect without the is_connected test
comm_control_connect_no_busy(x, id, now) ==
    LET req == x.comm.m_active_request
        k == connect(x.comm, id, now)
    IN  IF req.data_length # Len(DISCOVER_MAGIC)
        THEN Result(x, eResponseCode_InvalidRequest)
        ELSE IF k.ok = FALSE
        THEN Result([x EXCEPT !.comm = k.comm], eResponseCode_FailureToProceed)
        ELSE WithComm(x, encode_response(k.comm,
                 CONNECT_MAGIC \o encode_32_bits_big_endian(get_session_id(k.comm))))

\* CommControl, Connect (lines 199-221); id is the session id that connect()
\* generates if it is reached
comm_control_connect(x, id, now) ==
    LET req == x.comm.m_active_request
        k == connect(x.comm, id, now)
    IN  IF req.data_length # Len(DISCOVER_MAGIC)
        THEN Result(x, eResponseCode_InvalidRequest)
        ELSE IF is_connected(x.comm)
        THEN Result(x, eResponseCode_Busy)
        ELSE IF k.ok = FALSE
        THEN Result([x EXCEPT !.comm = k.comm], eResponseCode_FailureToProceed)
        ELSE WithComm(x, encode_response(k.comm,
                 CONNECT_MAGIC \o encode_32_bits_big_endian(get_session_id(k.comm))))

\* variant of comm_control_disconnect without the session id comparison
comm_control_disconnect_any_id(x) ==
    LET req == x.comm.m_active_request
    IN  IF req.data_length # 4
        THEN Result(x, eResponseCode_InvalidRequest)
        ELSE IF ~is_connected(x.comm)
        THEN Result(x, eResponseCode_OK)
        ELSE Result([x EXCEPT !.main.m_disconnect_pending = TRUE], eResponseCode_OK)

\* CommControl, Disconnect (lines 225-245)
comm_control_disconnect(x) ==
    LET req == x.comm.m_active_request
    IN  IF req.data_length # 4
        THEN Result(x, eResponseCode_InvalidRequest)
        ELSE IF ~is_connected(x.comm)
        THEN Result(x, eResponseCode_OK)
        ELSE IF get_session_id(x.comm) = decode_32_bits_big_endian(x.comm.m_buffer, 0)
        THEN Result([x EXCEPT !.main.m_disconnect_pending = TRUE], eResponseCode_OK)
        ELSE Result(x, eResponseCode_InvalidRequest)

process_comm_control(x, id, now) ==
    LET req == x.comm.m_active_request
    IN  CASE req.subfunction_id = eSubfnDiscover -> comm_control_discover(x)
          [] req.subfunction_id = eSubfnHeartbeat -> comm_control_heartbeat(x, now)
          [] req.subfunction_id = eSubfnGetParams -> comm_control_get_params(x)
          [] req.subfunction_id = eSubfnConnect -> comm_control_connect(x, id, now)
          [] req.subfunction_id = eSubfnDisconnect -> comm_control_disconnect(x)
          [] OTHER ->
                Result([x EXCEPT !.comm.m_active_response.response_code =
                                      eResponseCode_UnsupportedFeature],
                       eResponseCode_FailureToProceed)

\* variant of process_request_code that keeps data_length on an error
process_request_code_keep_length(r) ==
    Result([r.x EXCEPT !.comm.m_active_response.response_code = r.code], r.code)

\* process_request, lines 97-101: r is the outcome of the switch
process_request_code(r) ==
    Result([r.x EXCEPT !.comm.m_active_response.response_code = r.code,
                       !.comm.m_active_response.data_length =
                             IF r.code # eResponseCode_OK THEN 0 ELSE @],
           r.code)

\* process_request, lines 61-95: x1 carries the response header set up for
\* the request
process_request_switch(x1, id, now) ==
    LET request == x1.comm.m_active_request
    IN  CASE request.command_id = eCmdGetInfo -> process_get_info(x1)
          [] request.command_id = eCmdCommControl -> process_comm_control(x1, id, now)
          [] request.command_id = eCmdMemoryControl -> process_memory_control(x1)
          [] request.command_id = eCmdDataLogControl ->
                 Result(x1, eResponseCode_FailureToProceed)
          [] request.command_id = eCmdUserCommand ->
                 Result(x1, eResponseCode_FailureToProceed)
          [] OTHER ->
                 Result([x1 EXCEPT !.comm.m_active_response.response_code =
                                        eResponseCode_UnsupportedFeature],
                        eResponseCode_FailureToProceed)

process_request(x, id, now) ==
    LET request == x.comm.m_active_request
        x0 == [x EXCEPT !.comm.m_active_response = ResponseReset(@)]
    IN  IF ~request.valid THEN Result(x0, eResponseCode_FailureToProceed)
        ELSE process_request_code(process_request_switch(
                 [x0 EXCEPT !.comm.m_active_response.command_id = request.command_id,
                            !.comm.m_active_response.subfunction_id = request.subfunction_id,
                            !.comm.m_active_response.response_code = eResponseCode_OK,
                            !.comm.m_active_response.valid = TRUE], id, now))

\* MainHandler::process, lines 30-33: r is what process_request returned and
\* s what send_response returned
process_sent(r, s) ==
    [x |-> [r.x EXCEPT !.comm = s.comm],
     dispatched |-> TRUE,
     code |-> r.code,
     response |-> r.x.comm.m_active_response,
     data |-> ResponseData(r.x.comm, r.x.comm.m_active_response),
     sent |-> s.ok,
     released |-> FALSE]

process_send(r) ==
    IF r.x.comm.m_active_response.valid
    THEN process_sent(r, send_response(r.x.comm, r.x.comm.m_active_response))
    ELSE [x |-> r.x, dispatched |-> TRUE, code |-> r.code,
          response |-> r.x.comm.m_active_response, data |-> <<>>,
          sent |-> FALSE, released |-> FALSE]

\* variant of process_dispatch that does not set m_processing_request
process_dispatch_no_flag(x0, id, now) ==
    IF x0.comm.m_request_received /\ ~x0.main.m_processing_request
    THEN process_send(process_request([x0 EXCEPT !.comm = prepare_response(@)], id, now))
    ELSE [x |-> x0, dispatched |-> FALSE, code |-> eResponseCode_OK,
          response |-> x0.comm.m_active_response, data |-> <<>>,
          sent |-> FALSE, released |-> FALSE]

\* variant of process_dispatch that does not test m_processing_request
process_dispatch_reentrant(x0, id, now) ==
    IF x0.comm.m_request_received
    THEN process_send(process_request([x0 EXCEPT !.main.m_processing_request = TRUE,
                                                 !.comm = prepare_response(@)], id, now))
    ELSE [x |-> x0, dispatched |-> FALSE, code |-> eResponseCode_OK,
          response |-> x0.comm.m_active_response, data |-> <<>>,
          sent |-> FALSE, released |-> FALSE]

\* MainHandler::process, lines 24-34: x0 is the agent after the housekeeping
process_dispatch(x0, id, now) ==
    IF x0.comm.m_request_received /\ ~x0.main.m_processing_request
    THEN process_send(process_request([x0 EXCEPT !.main.m_processing_request = TRUE,
                                                 !.comm = prepare_response(@)], id, now))
    ELSE [x |-> x0, dispatched |-> FALSE, code |-> eResponseCode_OK,
          response |-> x0.comm.m_active_response, data |-> <<>>,
          sent |-> FALSE, released |-> FALSE]

\* variant of process_release that does not apply a pending disconnect
process_release_keep_session(d, now) ==
    IF d.x.main.m_processing_request /\ ~transmitting(d.x.comm)
    THEN [d EXCEPT !.x.comm = wait_next_request(@, now),
                   !.x.main.m_processing_request = FALSE,
                   !.x.main.m_disconnect_pending = FALSE,
                   !.released = TRUE]
    ELSE d

\* MainHandler::process, lines 36-49: d is the outcome of the dispatch
process_release(d, now) ==
    IF d.x.main.m_processing_request /\ ~transmitting(d.x.comm)
    THEN [d EXCEPT !.x.comm = IF d.x.main.m_disconnect_pending
                              THEN disconnect(wait_next_request(@, now))
                              ELSE wait_next_request(@, now),
                   !.x.main.m_processing_request = FALSE,
                   !.x.main.m_disconnect_pending = FALSE,
                   !.released = TRUE]
    ELSE d

\* MainHandler::process after m_timebase.step: now is the stepped time.
\* The result records whether a request was dispatched and its response sent.
process(x, id, now) ==
    process_release(process_dispatch([x EXCEPT !.comm = comm_process(@, now)], id, now), now)

(***************************************************************************)
(* The client side: request frames put on the wire                         *)
(***************************************************************************)
RECURSIVE Concat(_)
Concat(seqs) == IF seqs = <<>> THEN <<>> ELSE Head(seqs) \o Concat(Tail(seqs))

Header(req) ==
    <<req.cmd, req.subfn, (Len(req.data) \div 256) % 256, Len(req.data) % 256>> \o req.data

\* the CRC field that follows the payload of a frame of the given kind
CrcField(req, kind) ==
    LET crc == crc32(Header(req), U32Zero)
    IN  CASE kind = "good" -> crc
          [] kind = "badcrc" -> [crc EXCEPT ![4] = BitXor(@, 1)]
          [] kind = "lowzero" -> <<crc[1], 0, 0, 0>>
          [] kind = "shifted" -> <<crc[2], crc[3], crc[4], 0>>
          [] OTHER -> <<>>

\* a frame on the wire: the request it carries, its bytes, and whether its
\* CRC field is the CRC-32 of what precedes it
Frame(req, kind) ==
    [cmd |-> req.cmd, subfn |-> req.subfn, data |-> req.data, kind |-> kind,
     bytes |-> Header(req) \o CrcField(req, kind),
     crc_valid |-> CrcField(req, kind) = crc32(Header(req), U32Zero)]

NoFrame ==
    [cmd |-> 0, subfn |-> 0, data |-> <<>>, kind |-> "none", bytes |-> <<>>, crc_valid |-> FALSE]

DiscoverReq ==
    [cmd |-> eCmdCommControl, subfn |-> eSubfnDiscover, data |-> DISCOVER_MAGIC \o <<17, 34, 51, 68>>]

GetProtocolVersionReq == [cmd |-> eCmdGetInfo, subfn |-> eSubfnGetProtocolVersion, data |-> <<>>]

ConnectReq == [cmd |-> eCmdCommControl, subfn |-> eSubfnConnect, data |-> CONNECT_MAGIC]

HeartbeatReq(session_id, challenge) ==
    [cmd |-> eCmdCommControl, subfn |-> eSubfnHeartbeat,
     data |-> session_id \o encode_16_bits_big_endian(challenge)]

DisconnectReq(session_id) ==
    [cmd |-> eCmdCommControl, subfn |-> eSubfnDisconnect, data |-> session_id]

\* blocks is a sequence of <<address, length>>
ReadReq(blocks) ==
    [cmd |-> eCmdMemoryControl, subfn |-> eSubfnRead,
     data |-> Concat([k \in 1..Len(blocks) |->
                 encode_address_big_endian(blocks[k][1]) \o encode_16_bits_big_endian(blocks[k][2])])]

\* blocks is a sequence of <<address, bytes>>
WriteReq(blocks) ==
    [cmd |-> eCmdMemoryControl, subfn |-> eSubfnWrite,
     data |-> Concat([k \in 1..Len(blocks) |->
                 encode_address_big_endian(blocks[k][1])
                 \o encode_16_bits_big_endian(Len(blocks[k][2])) \o blocks[k][2]])]

\* a request given by its raw payload
RawReq(cmd, subfn, data) == [cmd |-> cmd, subfn |-> subfn, data |-> data]

\* payloads that end inside a block record: a Read of AddrSize + 3 bytes, a
\* Write whose second block lacks two of its three data bytes, and a Write
\* whose second block stops inside its header
MalformedMemoryReqs ==
    {RawReq(eCmdMemoryControl, eSubfnRead,
            encode_address_big_endian(0) \o <<0, 2, 0>>),
     RawReq(eCmdMemoryControl, eSubfnWrite,
            WriteReq(<<<<8, <<17, 34>>>>>>).data
            \o encode_address_big_endian(12) \o <<0, 3, 51>>),
     RawReq(eCmdMemoryControl, eSubfnWrite,
            WriteReq(<<<<8, <<17, 34>>>>>>).data
            \o encode_address_big_endian(12) \o <<0>>)}

SessionIds == {<<0, 0, 0, 1>>, <<0, 0, 0, 2>>}

ForbiddenRange == [start |-> MemSize - 16, end |-> MemSize - 13]
ReadonlyRange == [start |-> MemSize - 8, end |-> MemSize - 5]

\* the largest block whose read response fits the transmit buffer
FullBlock == SCRUTINY_BUFFER_SIZE - AddrSize - 2

FramingFrames ==
    {Frame(DiscoverReq, k) : k \in {"good", "lowzero", "shifted"}}
    \cup {Frame(GetProtocolVersionReq, "good")}

SessionFrames ==
    {Frame(DiscoverReq, "good"), Frame(ConnectReq, "good"),
     Frame(HeartbeatReq(<<0, 0, 0, 1>>, 4660), "good"),
     Frame(DisconnectReq(<<0, 0, 0, 1>>), "good")}

MemoryFrames ==
    {Frame(DiscoverReq, "good")}
    \cup {Frame(ReadReq(b), "good") :
            b \in {<<<<0, FullBlock>>>>,
                   <<<<0, FullBlock + 1>>>>,
                   <<<<ForbiddenRange.start, 1>>>>,
                   <<<<ReadonlyRange.start, 2>>>>,
                   <<<<0, 2>>, <<ForbiddenRange.start, 1>>>>,
                   <<<<0, 4>>, <<8, 2>>>>}}
    \cup {Frame(WriteReq(b), "good") :
            b \in {<<<<ReadonlyRange.start, <<170, 187>>>>>>,
                   <<<<ForbiddenRange.start, <<204>>>>>>,
                   <<<<8, <<221, 238>>>>>>}}
    \cup {Frame(r, "good") : r \in MalformedMemoryReqs}

\* blocks placed around the forbidden and the read-only range: covering the
\* whole range from before its start to after its end, ending just before
\* it, inside it, and away from it; and Writes of several blocks one of
\* which is refused
PolicyFrames ==
    {Frame(DiscoverReq, "good")}
    \cup {Frame(ReadReq(b), "good") :
            b \in {<<<<ForbiddenRange.start - 8, 16>>>>,
                   <<<<ForbiddenRange.start - 4, 3>>>>,
                   <<<<ForbiddenRange.end, 1>>>>,
                   <<<<ReadonlyRange.start - 2, 8>>>>}}
    \cup {Frame(WriteReq(b), "good") :
            b \in {<<<<ForbiddenRange.start - 2, <<1, 2, 3, 4, 5, 6, 7, 8>>>>>>,
                   <<<<ReadonlyRange.start - 2, <<1, 2, 3, 4, 5, 6, 7, 8>>>>>>,
                   <<<<ReadonlyRange.end, <<9>>>>>>,
                   <<<<8, <<221, 238>>>>, <<ForbiddenRange.start, <<204>>>>, <<12, <<1>>>>>>,
                   <<<<8, <<221, 238>>>>, <<16, <<2>>>>, <<ReadonlyRange.start + 1, <<3>>>>>>,
                   <<<<8, <<221, 238>>>>, <<12, <<1, 2, 3>>>>>>}}

\* a client that does not wait for the response before it sends again
DuplexFrames ==
    {Frame(DiscoverReq, "good"), Frame(GetProtocolVersionReq, "good"),
     Frame(ConnectReq, "good"), Frame(WriteReq(<<<<8, <<221, 238>>>>>>), "good")}

\* requests outside the implemented command set: an undefined command, an
\* undefined subfunction of each implemented command, DataLogControl and
\* UserCommand; and a Connect whose payload is not CONNECT_MAGIC
DispatchFrames ==
    {Frame(DiscoverReq, "good")}
    \cup {Frame(RawReq(c[1], c[2], <<>>), "good") :
            c \in {<<eCmdUserCommand + 1, 1>>, <<eCmdGetInfo, 9>>, <<eCmdCommControl, 9>>,
                   <<eCmdMemoryControl, 9>>, <<eCmdDataLogControl, 1>>, <<eCmdUserCommand, 1>>}}
    \cup {Frame(RawReq(eCmdCommControl, eSubfnConnect, <<1, 2, 3, 4>>), "good")}

\* a frame whose LEN field exceeds the buffer, followed by two payload bytes
OverflowFrame ==
    [cmd |-> eCmdMemoryControl, subfn |-> eSubfnWrite, data |-> <<>>, kind |-> "overflow",
     bytes |-> <<eCmdMemoryControl, eSubfnWrite,
                 ((SCRUTINY_BUFFER_SIZE + 1) \div 256) % 256, (SCRUTINY_BUFFER_SIZE + 1) % 256,
                 1, 2>>,
     crc_valid |-> FALSE]

\* frames the client may leave unfinished, and the oversize frame
TimeoutFrames ==
    {Frame(DiscoverReq, "good"), Frame(GetProtocolVersionReq, "good"), OverflowFrame}

\* frames delivered to a CommHandler that is driven without a MainHandler
CommFrames == {Frame(DiscoverReq, "good"), Frame(GetProtocolVersionReq, "good")}

\* responses a caller of CommHandler::send_response hands over; their payload
\* is what the shared buffer holds
CommResponses ==
    {[command_id |-> c, subfunction_id |-> 2, response_code |-> eResponseCode_OK,
      data_length |-> n] :
        c \in {eCmdGetInfo, eCmdMemoryControl}, n \in {0, 3, SCRUTINY_BUFFER_SIZE + 1}}

\* a client that keeps its session alive
HeartbeatFrames ==
    {Frame(DiscoverReq, "good"), Frame(ConnectReq, "good"),
     Frame(HeartbeatReq(<<0, 0, 0, 1>>, 4660), "good")}

Scripts ==
    {"framing", "session", "memory", "duplex", "dispatch", "timeout", "comm", "heartbeat",
     "policy", "hold"}

\* the client that keeps its session alive sends one more frame, and the
\* supervisor lets time pass once more
MaxFramesOf(s) == IF s = "heartbeat" THEN MaxFrames + 1 ELSE MaxFrames

MaxTicksOf(s) == IF s = "heartbeat" THEN MaxTicks + 1 ELSE MaxTicks

ScriptFrames(s) ==
    CASE s = "framing" -> FramingFrames
      [] s = "session" -> SessionFrames
      [] s = "duplex" -> DuplexFrames
      [] s = "dispatch" -> DispatchFrames
      [] s = "timeout" -> TimeoutFrames
      [] s = "comm" -> CommFrames
      [] s = "heartbeat" -> HeartbeatFrames
      [] s = "policy" -> PolicyFrames
      [] s = "hold" -> CommFrames
      [] OTHER -> MemoryFrames

\* the timesteps the supervisor passes to process() under each script
TimeSteps(s) ==
    CASE s = "framing" -> {0, SCRUTINY_COMM_TIMEOUT_US}
      [] s = "session" -> {0, SCRUTINY_COMM_TIMEOUT_US, SCRUTINY_COMM_HEARTBEAT_TMEOUT_US}
      [] s = "duplex" -> {0, SCRUTINY_COMM_TIMEOUT_US}
      [] s = "timeout" -> {0, SCRUTINY_COMM_TIMEOUT_US - 1, SCRUTINY_COMM_TIMEOUT_US}
      [] s = "heartbeat" -> {0, SCRUTINY_COMM_HEARTBEAT_TMEOUT_US - 1,
                             SCRUTINY_COMM_HEARTBEAT_TMEOUT_US}
      [] OTHER -> {0}

\* under the framing script the transport cuts the byte streams freely, under
\* the timeout script into pieces of three bytes or the rest of the frame; the
\* other scripts move whole frames
ChunkLens(s, remaining) ==
    CASE s = "framing" -> 1..remaining
      [] s \in {"timeout", "comm", "hold"} -> {Min(3, remaining), remaining}
      [] OTHER -> {remaining}

PopLens(s) ==
    CASE s = "framing" -> 0..MaxPop \cup {SCRUTINY_BUFFER_SIZE + 10}
      [] s \in {"duplex", "comm"} -> {MaxPop + 1, SCRUTINY_BUFFER_SIZE + 10}
      [] OTHER -> {SCRUTINY_BUFFER_SIZE + 10}

\* canonical serialization of a response: header, payload, CRC-32 big-endian
Serialize(response, data) ==
    LET body == <<BitOr(response.command_id, 128), response.subfunction_id,
                  response.response_code,
                  (response.data_length \div 256) % 256, response.data_length % 256>> \o data
    IN  body \o crc32(body, U32Zero)

InitMem == [a \in 0..(MemSize - 1) |-> (7 * a) % 256]

InitConfig ==
    add_readonly_address_range(
        add_forbidden_address_range(ConfigClear, ForbiddenRange.start, ForbiddenRange.end),
        ReadonlyRange.start, ReadonlyRange.end)

NoRequest == [command_id |-> 0, subfunction_id |-> 0, data |-> <<>>]

Session(c) ==
    [connected |-> c.connected, session_id |-> c.session_id,
     last_heartbeat_ts |-> c.last_heartbeat_ts]

Reception(c) ==
    [m_rx_state |-> c.m_rx_state, m_rx_error |-> c.m_rx_error,
     m_last_rx_timestamp |-> c.m_last_rx_timestamp]

NoTrace ==
    [op |-> "Init", n |-> 0, rr_before |-> FALSE, enabled_before |-> FALSE,
     state_before |-> "Idle", rx_before |-> Reception(CommInit(U32Zero)),
     pending_before |-> FALSE,
     entry |-> Session(CommInit(U32Zero)),
     dispatched |-> FALSE, request |-> NoRequest, code |-> eResponseCode_OK,
     sent |-> FALSE, released |-> FALSE, reads |-> <<>>, writes |-> <<>>,
     to_send_before |-> 0, popped |-> <<>>]

(***************************************************************************)
(* State machine                                                           *)
(***************************************************************************)
Init ==
    /\ comm = CommInit(U32Zero)
    /\ main = [m_processing_request |-> FALSE, m_disconnect_pending |-> FALSE,
               m_config |-> InitConfig]
    /\ time = U32Zero
    /\ mem = InitMem
    /\ wire \in {[script |-> s, nframes |-> 0, frame |-> NoFrame, pos |-> 0, clean |-> FALSE,
                  flips |-> 0, flip_pos |-> 0, ticks |-> 0, out |-> <<>>, expect |-> <<>>,
                  connected_at |-> U32Zero] :
                 s \in Scripts}
    /\ trace = NoTrace

FrameDone == wire.pos = Len(wire.frame.bytes)

\* the client is half duplex: it starts a frame only when the agent holds no
\* request and is not sending a response
AgentQuiet == comm.m_state # "Transmitting" /\ ~comm.m_request_received /\ ~main.m_processing_request

\* under the timeout script the client may give up a frame it has not
\* finished, once timebase time has passed, and start another one
MayAbandon == wire.script = "timeout" /\ ~FrameDone /\ trace.op = "Process"

\* The transport hands the next bytes of the client's byte stream to
\* MainHandler::receive_data: a chunk of the frame in flight, or the first
\* chunk of a new frame.
ReceiveData ==
    \E f \in ScriptFrames(wire.script), fresh \in BOOLEAN :
        /\ IF fresh
           THEN /\ wire.nframes < MaxFramesOf(wire.script)
                /\ \/ FrameDone /\ (AgentQuiet \/ wire.script \in {"duplex", "hold"})
                   \/ MayAbandon
           ELSE ~FrameDone /\ f = wire.frame
        /\ LET pos0 == IF fresh THEN 0 ELSE wire.pos
           IN  \E n \in ChunkLens(wire.script, Len(f.bytes) - pos0) :
                 \E c1 \in {receive_data(comm, SubSeq(f.bytes, pos0 + 1, pos0 + n), time)} :
                 LET flip == ~comm.m_request_received /\ c1.m_request_received
                 IN  /\ comm' = c1
                     /\ wire' = [wire EXCEPT
                            !.frame = f,
                            !.pos = pos0 + n,
                            !.nframes = IF fresh THEN @ + 1 ELSE @,
                            !.clean = IF fresh
                                      THEN /\ comm.m_state = "Idle"
                                           /\ comm.m_rx_state = "WaitForCommand"
                                           /\ comm.m_enabled
                                      ELSE @,
                            !.flips = (IF fresh THEN 0 ELSE @) + (IF flip THEN 1 ELSE 0),
                            !.flip_pos = IF flip THEN pos0 + n ELSE IF fresh THEN 0 ELSE @]
                     /\ trace' = [NoTrace EXCEPT !.op = "ReceiveData",
                                                 !.rr_before = comm.m_request_received,
                                                 !.enabled_before = comm.m_enabled,
                              !.state_before = comm.m_state,
                              !.rx_before = Reception(comm),
                              !.pending_before = main.m_disconnect_pending,
                                                 !.entry = Session(comm)]
                     /\ UNCHANGED <<main, time, mem>>

\* The supervisor calls MainHandler::process(timestep_us).  A call that
\* changes nothing in the agent leaves the history record as it is.
Process ==
    \E timestep_us \in TimeSteps(wire.script), id \in SessionIds :
        /\ timestep_us # 0 => wire.ticks < MaxTicksOf(wire.script)
        /\ \E now \in {step(time, U32Of(timestep_us))} :
           \E r \in {process([comm |-> comm, main |-> main, mem |-> mem,
                              reads |-> <<>>, writes |-> <<>>], id, now)} :
               /\ time' = now
               /\ comm' = r.x.comm
               /\ main' = r.x.main
               /\ mem' = r.x.mem
               /\ IF now = time /\ r.x.comm = comm /\ r.x.main = main /\ r.x.mem = mem
                  THEN UNCHANGED <<wire, trace>>
                  ELSE /\ wire' = [wire EXCEPT
                              !.ticks = IF timestep_us # 0 THEN @ + 1 ELSE @,
                              !.clean = IF timestep_us # 0 /\ ~FrameDone THEN FALSE ELSE @,
                              !.connected_at = IF ~comm.connected /\ r.x.comm.connected
                                               THEN now ELSE @,
                              !.out = IF r.sent THEN <<>> ELSE @,
                              !.expect = IF r.sent THEN Serialize(r.response, r.data) ELSE @]
                       /\ trace' = [NoTrace EXCEPT
                              !.op = "Process",
                              !.rr_before = comm.m_request_received,
                              !.enabled_before = comm.m_enabled,
                              !.state_before = comm.m_state,
                              !.rx_before = Reception(comm),
                              !.pending_before = main.m_disconnect_pending,
                              !.entry = Session(comm),
                              !.dispatched = r.dispatched,
                              !.request = IF r.dispatched
                                          THEN [command_id |-> comm.m_active_request.command_id,
                                                subfunction_id |-> comm.m_active_request.subfunction_id,
                                                data |-> RequestData(comm)]
                                          ELSE NoRequest,
                              !.code = r.code,
                              !.sent = r.sent,
                              !.released = r.released,
                              !.reads = r.x.reads,
                              !.writes = r.x.writes]

\* The transport pulls response bytes with MainHandler::pop_data(buffer, len).
\* A call that returns no byte leaves the history record as it is.
PopData ==
    \E len \in PopLens(wire.script) :
        \E r \in {pop_data(comm, len)} :
            /\ comm' = r.comm
            /\ IF r.comm = comm
               THEN UNCHANGED <<wire, trace>>
               ELSE /\ wire' = [wire EXCEPT !.out = @ \o r.buffer]
                    /\ trace' = [NoTrace EXCEPT !.op = "PopData",
                                                !.n = len,
                                                !.enabled_before = comm.m_enabled,
                              !.state_before = comm.m_state,
                              !.rx_before = Reception(comm),
                              !.pending_before = main.m_disconnect_pending,
                                                !.entry = Session(comm),
                                                !.to_send_before = data_to_send(comm),
                                                !.popped = r.buffer]
            /\ UNCHANGED <<main, time, mem>>

Next == ReceiveData \/ Process \/ PopData

\* A caller hands a response to CommHandler::send_response.
SendResponse ==
    \E response \in CommResponses :
        \E r \in {send_response(comm, response)} :
            /\ comm' = r.comm
            /\ wire' = [wire EXCEPT
                   !.out = IF r.ok THEN <<>> ELSE @,
                   !.expect = IF r.ok
                              THEN Serialize(response, Take(comm.m_buffer, response.data_length))
                              ELSE @]
            /\ trace' = [NoTrace EXCEPT !.op = "SendResponse",
                                        !.n = response.data_length,
                                        !.rr_before = comm.m_request_received,
                                        !.enabled_before = comm.m_enabled,
                                        !.state_before = comm.m_state,
                                        !.rx_before = Reception(comm),
                                        !.entry = Session(comm),
                                        !.request = [NoRequest EXCEPT
                                                        !.command_id = response.command_id,
                                                        !.subfunction_id = response.subfunction_id],
                                        !.code = response.response_code,
                                        !.sent = r.ok,
                                        !.to_send_before = data_to_send(comm),
                                        !.popped = wire.out]
            /\ UNCHANGED <<main, time, mem>>

\* The caller has consumed the request and calls CommHandler::wait_next_request.
WaitNextRequest ==
    /\ comm.m_request_received
    /\ comm' = wait_next_request(comm, time)
    /\ trace' = [NoTrace EXCEPT !.op = "WaitNextRequest",
                                !.rr_before = comm.m_request_received,
                                !.enabled_before = comm.m_enabled,
                                !.state_before = comm.m_state,
                                !.rx_before = Reception(comm),
                                !.entry = Session(comm)]
    /\ UNCHANGED <<main, time, mem, wire>>

\* the CommHandler driven directly, as the transport and a caller of its
\* interface drive it
NextComm == ReceiveData \/ SendResponse \/ WaitNextRequest \/ PopData

InitComm == Init /\ wire.script = "comm"

SpecComm == InitComm /\ [][NextComm]_vars

\* The clock injected with CommHandler::init advances: Timebase::step.
ClockStep ==
    \E dt \in {SCRUTINY_COMM_TIMEOUT_US - 1, SCRUTINY_COMM_TIMEOUT_US} :
        /\ wire.ticks < MaxTicksOf(wire.script)
        /\ time' = step(time, U32Of(dt))
        /\ wire' = [wire EXCEPT !.ticks = @ + 1]
        /\ trace' = [NoTrace EXCEPT !.op = "ClockStep", !.n = dt,
                                    !.rr_before = comm.m_request_received,
                                    !.enabled_before = comm.m_enabled,
                                    !.state_before = comm.m_state,
                                    !.rx_before = Reception(comm),
                                    !.entry = Session(comm)]
        /\ UNCHANGED <<comm, main, mem>>

\* the CommHandler with its clock, before the caller takes the request: the
\* transport keeps delivering bytes and the caller ends by asking for the
\* next request
NextHold == ReceiveData \/ ClockStep \/ WaitNextRequest

InitHold == Init /\ wire.script = "hold"

SpecHold == InitHold /\ [][NextHold]_vars

InitHeartbeat == Init /\ wire.script = "heartbeat"

SpecHeartbeat == InitHeartbeat /\ [][Next]_vars

Spec == Init /\ [][Next]_vars

\* the same machine with one client script each
InitFraming == Init /\ wire.script = "framing"

SpecFraming == InitFraming /\ [][Next]_vars

InitSession == Init /\ wire.script = "session"

SpecSession == InitSession /\ [][Next]_vars

InitMemory == Init /\ wire.script = "memory"

SpecMemory == InitMemory /\ [][Next]_vars

InitPolicy == Init /\ wire.script = "policy"

SpecPolicy == InitPolicy /\ [][Next]_vars

InitDispatch == Init /\ wire.script = "dispatch"

SpecDispatch == InitDispatch /\ [][Next]_vars

InitDuplex == Init /\ wire.script = "duplex"

SpecDuplex == InitDuplex /\ [][Next]_vars

InitTimeout == Init /\ wire.script = "timeout"

SpecTimeout == InitTimeout /\ [][Next]_vars

(***************************************************************************)
(* The Timebase on its own.  time is m_time_us; trace holds the timestamp  *)
(* last taken, the advance since then as an unbounded number in two 16-bit *)
(* halves, and the outcome of the last is_elapsed call.                    *)
(***************************************************************************)
TimebaseValues ==
    {U32Of(0), U32Of(1), U32Of(2), U32Of(3), U32Of(100),
     <<127, 255, 255, 255>>, <<128, 0, 0, 0>>, <<255, 255, 255, 254>>, <<255, 255, 255, 255>>}

Advance(hi, lo) == [hi |-> hi + (lo \div 65536), lo |-> lo % 65536]

InitTimebase ==
    /\ comm = CommInit(U32Zero)
    /\ main = [m_processing_request |-> FALSE, m_disconnect_pending |-> FALSE,
               m_config |-> InitConfig]
    /\ mem = InitMem
    /\ wire = [script |-> "timebase"]
    /\ time \in TimebaseValues
    /\ trace = [op |-> "get_timestamp", timestamp |-> time, advance |-> Advance(0, 0),
                steps |-> 0, timeout_us |-> U32Zero, elapsed |-> TRUE]

\* Timebase::get_timestamp
TimebaseGetTimestamp ==
    /\ trace' = [trace EXCEPT !.op = "get_timestamp", !.timestamp = time,
                              !.advance = Advance(0, 0)]
    /\ UNCHANGED <<comm, main, time, mem, wire>>

\* Timebase::step, as long as the advance since the timestamp stays below 2^32
TimebaseStep ==
    \E timestep_us \in TimebaseValues :
        \E a \in {Advance(trace.advance.hi + U32Hi(timestep_us),
                          trace.advance.lo + U32Lo(timestep_us))} :
            /\ trace.steps < MaxSteps
            /\ a.hi < 65536
            /\ time' = step(time, timestep_us)
            /\ trace' = [trace EXCEPT !.op = "step", !.advance = a, !.steps = @ + 1]
            /\ UNCHANGED <<comm, main, mem, wire>>

\* Timebase::is_elapsed
TimebaseIsElapsed ==
    \E timeout_us \in TimebaseValues :
        /\ trace' = [trace EXCEPT !.op = "is_elapsed", !.timeout_us = timeout_us,
                                  !.elapsed = is_elapsed(time, trace.timestamp, timeout_us)]
        /\ UNCHANGED <<comm, main, time, mem, wire>>

NextTimebase == TimebaseGetTimestamp \/ TimebaseStep \/ TimebaseIsElapsed

SpecTimebase == InitTimebase /\ [][NextTimebase]_vars

(***************************************************************************)
(* Collection<T, SIZE, TYPE>: a ring of SIZE elements; _data is indexed    *)
(* from 0.                                                                 *)
(***************************************************************************)
CollectionInit(type) ==
    [TYPE |-> type, _head |-> 0, _tail |-> 0, _nbItem |-> 0,
     _error |-> [underrun |-> FALSE, overrun |-> FALSE],
     _data |-> [k \in 0..(CollectionSize - 1) |-> 0]]

full(c) == c._nbItem >= CollectionSize

empty(c) == c._nbItem = 0

\* variant of push without the full() test
push_unchecked(c, element) ==
    [c |-> [c EXCEPT !._data[c._head] = element,
                     !._head = IF @ + 1 >= CollectionSize THEN 0 ELSE @ + 1,
                     !._nbItem = @ + 1],
     success |-> TRUE]

\* Collection::push(const T* element)
push(c, element) ==
    IF full(c)
    THEN [c |-> [c EXCEPT !._error.overrun = TRUE], success |-> FALSE]
    ELSE [c |-> [c EXCEPT !._data[c._head] = element,
                          !._head = IF @ + 1 >= CollectionSize THEN 0 ELSE @ + 1,
                          !._nbItem = @ + 1],
          success |-> TRUE]

\* Collection::pop(T* element); element is the caller's variable, which is
\* written only on success
pop(c, element) ==
    IF empty(c)
    THEN [c |-> [c EXCEPT !._error.underrun = TRUE], success |-> FALSE, element |-> element]
    ELSE IF c.TYPE = "FIFO"
    THEN [c |-> [c EXCEPT !._tail = IF @ + 1 >= CollectionSize THEN 0 ELSE @ + 1,
                          !._nbItem = @ - 1],
          success |-> TRUE, element |-> c._data[c._tail]]
    ELSE LET head == IF c._head = 0 THEN CollectionSize - 1 ELSE c._head - 1
         IN  [c |-> [c EXCEPT !._head = head, !._nbItem = @ - 1],
              success |-> TRUE, element |-> c._data[head]]

\* the values a caller stores
Elements == {1, 2, 3}

\* comm is the Collection; trace holds the last call, its result, and the
\* elements the caller has stored and not yet taken back, in push order
InitCollection ==
    /\ comm \in {CollectionInit(t) : t \in {"FIFO", "STACK"}}
    /\ main = [m_processing_request |-> FALSE, m_disconnect_pending |-> FALSE,
               m_config |-> InitConfig]
    /\ mem = InitMem
    /\ time = U32Zero
    /\ wire = [script |-> "collection"]
    /\ trace = [op |-> "Collection", success |-> TRUE, element |-> 0, stored |-> <<>>,
                before |-> comm, stored_before |-> <<>>]

CollectionPush ==
    \E element \in Elements :
        \E r \in {push(comm, element)} :
            /\ comm' = r.c
            /\ trace' = [trace EXCEPT !.op = "push", !.success = r.success,
                                      !.element = element,
                                      !.stored = IF r.success THEN Append(@, element) ELSE @,
                                      !.before = comm, !.stored_before = trace.stored]
            /\ UNCHANGED <<main, time, mem, wire>>

CollectionPop ==
    \E r \in {pop(comm, 0)} :
        /\ comm' = r.c
        /\ trace' = [trace EXCEPT !.op = "pop", !.success = r.success,
                                  !.element = r.element,
                                  !.stored = IF ~r.success THEN @
                                             ELSE IF comm.TYPE = "FIFO" THEN Tail(@)
                                             ELSE SubSeq(@, 1, Len(@) - 1),
                                  !.before = comm, !.stored_before = trace.stored]
        /\ UNCHANGED <<main, time, mem, wire>>

NextCollection == CollectionPush \/ CollectionPop

SpecCollection == InitCollection /\ [][NextCollection]_vars

(***************************************************************************)
(* Collection shared by two contexts.  Each context runs push or pop one   *)
(* memory access at a time; wire.guard is the context inside the critical  *)
(* section opened by make_atomic and closed by undo_atomic.                *)
(***************************************************************************)
Contexts == {"main", "isr"}

U16Inc(v) == (v + 1) % 65536

U16Dec(v) == (v + 65535) % 65536

\* the locals of a context that is not inside push or pop
IdleContext == [op |-> "none", pc |-> "idle", element |-> 0, r |-> 0, success |-> TRUE]

\* make_atomic(&context): enter the critical section
make_atomic(g, id) == id

\* undo_atomic(&context): leave the critical section
undo_atomic(g, id) == IF g = id THEN "none" ELSE g

\* the value read from _data[i]; an index outside the array reads anything
DataRead(c, i) == IF i \in DOMAIN c._data THEN {c._data[i]} ELSE Elements \cup {0}

\* one memory access of Collection::push(const T* element) in context id,
\* compiled with the given ATOMIC parameter; x holds the locals
push_step_with(atomic, c, x, g, id) ==
    CASE x.pc = "enter" ->
            {[c |-> c, x |-> [x EXCEPT !.pc = "test", !.success = TRUE],
              g |-> IF atomic THEN make_atomic(g, id) ELSE g]}
      [] x.pc = "test" ->
            {[c |-> c, x |-> [x EXCEPT !.pc = IF full(c) THEN "error" ELSE "store"], g |-> g]}
      [] x.pc = "error" ->
            {[c |-> [c EXCEPT !._error.overrun = TRUE],
              x |-> [x EXCEPT !.pc = "leave", !.success = FALSE], g |-> g]}
      [] x.pc = "store" ->
            {[c |-> IF c._head \in DOMAIN c._data
                    THEN [c EXCEPT !._data[c._head] = x.element] ELSE c,
              x |-> [x EXCEPT !.pc = "head_rd"], g |-> g]}
      [] x.pc = "head_rd" ->
            {[c |-> c, x |-> [x EXCEPT !.pc = "head_wr", !.r = c._head], g |-> g]}
      [] x.pc = "head_wr" ->
            {[c |-> [c EXCEPT !._head = U16Inc(x.r)], x |-> [x EXCEPT !.pc = "wrap", !.r = 0], g |-> g]}
      [] x.pc = "wrap" ->
            {[c |-> [c EXCEPT !._head = IF @ >= CollectionSize THEN 0 ELSE @],
              x |-> [x EXCEPT !.pc = "count_rd"], g |-> g]}
      [] x.pc = "count_rd" ->
            {[c |-> c, x |-> [x EXCEPT !.pc = "count_wr", !.r = c._nbItem], g |-> g]}
      [] x.pc = "count_wr" ->
            {[c |-> [c EXCEPT !._nbItem = U16Inc(x.r)], x |-> [x EXCEPT !.pc = "leave", !.r = 0], g |-> g]}
      [] x.pc = "leave" ->
            {[c |-> c, x |-> IdleContext,
              g |-> IF atomic THEN undo_atomic(g, id) ELSE g]}

\* push compiled with ATOMIC = false
push_step_unguarded(c, x, g, id) == push_step_with(FALSE, c, x, g, id)

push_step(c, x, g, id) == push_step_with(wire.ATOMIC, c, x, g, id)

\* one memory access of Collection::pop(T* element) in context id
pop_step_with(atomic, c, x, g, id) ==
    CASE x.pc = "enter" ->
            {[c |-> c, x |-> [x EXCEPT !.pc = "test", !.success = TRUE],
              g |-> IF atomic THEN make_atomic(g, id) ELSE g]}
      [] x.pc = "test" ->
            {[c |-> c,
              x |-> [x EXCEPT !.pc = IF empty(c) THEN "error"
                                     ELSE IF c.TYPE = "FIFO" THEN "load" ELSE "head_test"],
              g |-> g]}
      [] x.pc = "error" ->
            {[c |-> [c EXCEPT !._error.underrun = TRUE],
              x |-> [x EXCEPT !.pc = "leave", !.success = FALSE], g |-> g]}
      [] x.pc = "load" ->
            {[c |-> c,
              x |-> [x EXCEPT !.pc = IF c.TYPE = "FIFO" THEN "tail_rd" ELSE "count_rd",
                              !.element = v],
              g |-> g] : v \in DataRead(c, IF c.TYPE = "FIFO" THEN c._tail ELSE c._head)}
      [] x.pc = "tail_rd" ->
            {[c |-> c, x |-> [x EXCEPT !.pc = "tail_wr", !.r = c._tail], g |-> g]}
      [] x.pc = "tail_wr" ->
            {[c |-> [c EXCEPT !._tail = U16Inc(x.r)], x |-> [x EXCEPT !.pc = "wrap", !.r = 0], g |-> g]}
      [] x.pc = "wrap" ->
            {[c |-> [c EXCEPT !._tail = IF @ >= CollectionSize THEN 0 ELSE @],
              x |-> [x EXCEPT !.pc = "count_rd"], g |-> g]}
      [] x.pc = "head_test" ->
            {[c |-> c, x |-> [x EXCEPT !.pc = IF c._head = 0 THEN "head_set" ELSE "head_rd"],
              g |-> g]}
      [] x.pc = "head_set" ->
            {[c |-> [c EXCEPT !._head = CollectionSize - 1], x |-> [x EXCEPT !.pc = "load"],
              g |-> g]}
      [] x.pc = "head_rd" ->
            {[c |-> c, x |-> [x EXCEPT !.pc = "head_wr", !.r = c._head], g |-> g]}
      [] x.pc = "head_wr" ->
            {[c |-> [c EXCEPT !._head = U16Dec(x.r)], x |-> [x EXCEPT !.pc = "load", !.r = 0], g |-> g]}
      [] x.pc = "count_rd" ->
            {[c |-> c, x |-> [x EXCEPT !.pc = "count_wr", !.r = c._nbItem], g |-> g]}
      [] x.pc = "count_wr" ->
            {[c |-> [c EXCEPT !._nbItem = U16Dec(x.r)], x |-> [x EXCEPT !.pc = "leave", !.r = 0], g |-> g]}
      [] x.pc = "leave" ->
            {[c |-> c, x |-> IdleContext,
              g |-> IF atomic THEN undo_atomic(g, id) ELSE g]}

\* pop compiled with ATOMIC = false
pop_step_unguarded(c, x, g, id) == pop_step_with(FALSE, c, x, g, id)

pop_step(c, x, g, id) == pop_step_with(wire.ATOMIC, c, x, g, id)

\* the values the contexts store
AtomicElements == {1, 2}

\* a context may run unless another context is inside the critical section
MayRun(id) == wire.guard \in {"none", id}

\* comm is the shared Collection<T, SIZE, TYPE, true>; trace.stored holds the
\* elements of the successful pushes not yet returned by a successful pop
InitAtomic ==
    /\ comm \in {CollectionInit(t) : t \in {"FIFO", "STACK"}}
    /\ main = [m_processing_request |-> FALSE, m_disconnect_pending |-> FALSE,
               m_config |-> InitConfig]
    /\ mem = InitMem
    /\ time = U32Zero
    /\ wire = [script |-> "atomic", ATOMIC |-> TRUE, guard |-> "none",
               ctx |-> [id \in Contexts |-> IdleContext]]
    /\ trace = [op |-> "Atomic", id |-> "none", success |-> TRUE, element |-> 0,
                expected |-> 0, stored |-> <<>>, count_before |-> 0]

\* a context calls push(&element) or pop(&element)
AtomicCall ==
    \E id \in Contexts, op \in {"push", "pop"}, element \in AtomicElements :
        /\ wire.ctx[id].pc = "idle"
        /\ op = "pop" => element = 1
        /\ wire' = [wire EXCEPT !.ctx[id] = [op |-> op, pc |-> "enter",
                                             element |-> IF op = "push" THEN element ELSE 0,
                                             r |-> 0, success |-> TRUE]]
        /\ UNCHANGED <<comm, main, time, mem, trace>>

AtomicPushStep ==
    \E id \in Contexts :
        /\ wire.ctx[id].op = "push"
        /\ wire.ctx[id].pc # "idle"
        /\ MayRun(id)
        /\ \E r \in push_step(comm, wire.ctx[id], wire.guard, id) :
              /\ comm' = r.c
              /\ wire' = [wire EXCEPT !.ctx[id] = r.x, !.guard = r.g]
              /\ trace' = IF r.x.pc # "idle" THEN trace
                          ELSE [trace EXCEPT !.op = "push", !.id = id,
                                             !.success = wire.ctx[id].success,
                                             !.element = wire.ctx[id].element,
                                             !.expected = 0,
                                             !.stored = IF wire.ctx[id].success
                                                        THEN Append(@, wire.ctx[id].element)
                                                        ELSE @,
                                             !.count_before = Len(trace.stored)]
        /\ UNCHANGED <<main, time, mem>>

AtomicPopStep ==
    \E id \in Contexts :
        /\ wire.ctx[id].op = "pop"
        /\ wire.ctx[id].pc # "idle"
        /\ MayRun(id)
        /\ \E r \in pop_step(comm, wire.ctx[id], wire.guard, id) :
              /\ comm' = r.c
              /\ wire' = [wire EXCEPT !.ctx[id] = r.x, !.guard = r.g]
              /\ trace' = IF r.x.pc # "idle" THEN trace
                          ELSE [trace EXCEPT
                                  !.op = "pop", !.id = id,
                                  !.success = wire.ctx[id].success,
                                  !.element = wire.ctx[id].element,
                                  !.expected = IF ~wire.ctx[id].success \/ trace.stored = <<>>
                                               THEN 0
                                               ELSE IF comm.TYPE = "FIFO" THEN trace.stored[1]
                                               ELSE trace.stored[Len(trace.stored)],
                                  !.stored = IF ~wire.ctx[id].success \/ @ = <<>> THEN @
                                             ELSE IF comm.TYPE = "FIFO" THEN Tail(@)
                                             ELSE SubSeq(@, 1, Len(@) - 1),
                                  !.count_before = Len(trace.stored)]
        /\ UNCHANGED <<main, time, mem>>

NextAtomic == AtomicCall \/ AtomicPushStep \/ AtomicPopStep

SpecAtomic == InitAtomic /\ [][NextAtomic]_vars

(***************************************************************************)
(* CommHandler::process_data one loop iteration at a time.  The caller's   *)
(* array is d.bytes followed by bytes of value d.fill; len is the length   *)
(* argument (uint32_t) and i the loop index.                               *)
(***************************************************************************)
InputByte(d, k) == IF k < Len(d.bytes) THEN d.bytes[k + 1] ELSE d.fill

InputBytes(d, i, n) == [k \in 1..n |-> InputByte(d, i + k - 1)]

\* process_data before the byte loop; run tells whether the loop is entered
process_data_enter(c, len, now) ==
    IF c.m_state = "Transmitting" THEN [c |-> c, run |-> FALSE]
    ELSE LET c1 == IF /\ c.m_rx_state # "WaitForCommand"
                      /\ len # 0
                      /\ is_elapsed(now, c.m_last_rx_timestamp, U32Of(SCRUTINY_COMM_TIMEOUT_US))
                   THEN [reset_rx(c, now) EXCEPT !.m_state = "Idle"]
                   ELSE c
         IN  [c |-> IF len # 0
                    THEN [c1 EXCEPT !.m_last_rx_timestamp = now,
                                    !.m_state = IF @ = "Idle" THEN "Receiving" ELSE @]
                    ELSE c1,
              run |-> TRUE]

\* the condition of the byte loop
rx_condition(c, len, i) == i < len /\ ~c.m_request_received /\ c.m_rx_state # "Error"

\* static_cast<uint16_t>(len - i)
available_bytes_of(len, i) == (len - i) % 65536

\* one iteration of the byte loop: the switch on m_rx_state
rx_iteration(c, d, len, i, now) ==
    LET req == c.m_active_request
        b == InputByte(d, i)
    IN
    CASE c.m_rx_state = "WaitForCommand" ->
            [c |-> [c EXCEPT !.m_active_request.command_id = b % 128,
                             !.m_rx_state = "WaitForSubfunction"], i |-> i + 1]
      [] c.m_rx_state = "WaitForSubfunction" ->
            [c |-> [c EXCEPT !.m_active_request.subfunction_id = b,
                             !.m_rx_state = "WaitForLength"], i |-> i + 1]
      [] c.m_rx_state = "WaitForLength" ->
            LET two == c.m_length_bytes_received = 0 /\ len - i >= 2
                dl == IF c.m_length_bytes_received = 0
                      THEN (IF two THEN BitOr(b * 256, InputByte(d, i + 1)) ELSE b * 256)
                      ELSE BitOr(req.data_length, b)
                next_state == two \/ c.m_length_bytes_received # 0
            IN  [c |-> [c EXCEPT !.m_active_request.data_length = dl,
                                 !.m_length_bytes_received = IF next_state THEN 2 ELSE 1,
                                 !.m_rx_state = IF ~next_state THEN @
                                                ELSE IF dl = 0 THEN "WaitForCRC"
                                                ELSE "WaitForData"],
                 i |-> IF two THEN i + 2 ELSE i + 1]
      [] c.m_rx_state = "WaitForData" ->
            IF rx_overflow(req)
            THEN [c |-> [c EXCEPT !.m_rx_error = "Overflow", !.m_rx_state = "Error"], i |-> i]
            ELSE LET available_bytes == available_bytes_of(len, i)
                     missing_bytes == req.data_length - c.m_data_bytes_received
                     data_bytes_to_read == IF available_bytes >= missing_bytes
                                           THEN missing_bytes ELSE available_bytes
                     received == c.m_data_bytes_received + data_bytes_to_read
                 IN  [c |-> [c EXCEPT !.m_buffer = Memcpy(@, c.m_data_bytes_received,
                                                          InputBytes(d, i, data_bytes_to_read)),
                                      !.m_data_bytes_received = received,
                                      !.m_rx_state = IF received >= req.data_length
                                                     THEN "WaitForCRC" ELSE @],
                      i |-> i + data_bytes_to_read]
      [] c.m_rx_state = "WaitForCRC" ->
            LET n == c.m_crc_bytes_received
                crc == IF n = 0 THEN <<b, 0, 0, 0>>
                       ELSE IF n \in 1..3 THEN [req.crc EXCEPT ![n + 1] = BitOr(@, b)]
                       ELSE req.crc
                c1 == [c EXCEPT !.m_active_request.crc = crc]
                c2 == IF n # 3 THEN c1
                      ELSE LET c3 == [c1 EXCEPT !.m_state = "Idle"]
                               c4 == IF ~c3.m_enabled /\ check_crc(c3) /\ check_must_enable(c3)
                                     THEN [c3 EXCEPT !.m_enabled = TRUE] ELSE c3
                           IN  IF check_crc(c3) /\ c4.m_enabled
                               THEN [c4 EXCEPT !.m_active_request.valid = TRUE,
                                               !.m_rx_state = "WaitForProcess",
                                               !.m_request_received = TRUE]
                               ELSE reset_rx(c4, now)
            IN  [c |-> [c2 EXCEPT !.m_crc_bytes_received = (@ + 1) % 256], i |-> i + 1]
      [] OTHER -> [c |-> c, i |-> i]

\* the frames the transport delivers, whole or from any offset
LoopFrames == {Frame(DiscoverReq, "good"), Frame(GetProtocolVersionReq, "good"), OverflowFrame}

\* the length arguments: within the frame, and arrays of 64 KiB and more
LoopLens(remaining) ==
    {0, Min(3, remaining), Min(4, remaining), remaining, 65536, 65540}

InitLoop ==
    /\ comm = CommInit(U32Zero)
    /\ main = [m_processing_request |-> FALSE, m_disconnect_pending |-> FALSE,
               m_config |-> InitConfig]
    /\ time = U32Zero
    /\ mem = InitMem
    /\ wire = [script |-> "loop", nframes |-> 0, frame |-> NoFrame, pos |-> 0, clean |-> FALSE,
               flips |-> 0, flip_pos |-> 0, ticks |-> 0, out |-> <<>>, expect |-> <<>>,
               connected_at |-> U32Zero,
               running |-> FALSE, input |-> [bytes |-> <<>>, fill |-> 0], len |-> 0, i |-> 0,
               iterations |-> 0, ncalls |-> 0]
    /\ trace = NoTrace

\* receive_data(data, len) is called: the code before the loop runs
LoopCall ==
    \E f \in LoopFrames, pos \in {0, 3, 4}, dt \in {0, SCRUTINY_COMM_TIMEOUT_US} :
        \E len \in LoopLens(Len(f.bytes) - pos) :
            \E now \in {U32Add(time, U32Of(dt))} :
                \E r \in {process_data_enter(comm, len, now)} :
                    /\ ~wire.running
                    /\ wire.ncalls < MaxCalls
                    /\ pos = 0 \/ (f = wire.frame /\ pos = wire.pos)
                    /\ comm' = r.c
                    /\ time' = now
                    /\ wire' = [wire EXCEPT
                           !.running = r.run,
                           !.frame = f,
                           !.pos = pos,
                           !.input = [bytes |-> SubSeq(f.bytes, pos + 1, Len(f.bytes)),
                                      fill |-> 0],
                           !.len = len, !.i = 0, !.iterations = 0, !.ncalls = @ + 1]
                    /\ trace' = [NoTrace EXCEPT !.op = "receive_data", !.n = len,
                                                !.state_before = comm.m_state]
                    /\ UNCHANGED <<main, mem>>

\* the loop condition holds: one pass through the switch
LoopIteration ==
    \E r \in {rx_iteration(comm, wire.input, wire.len, wire.i, time)} :
        /\ wire.running
        /\ rx_condition(comm, wire.len, wire.i)
        /\ wire.iterations < MaxIterations
        /\ comm' = r.c
        /\ wire' = [wire EXCEPT !.i = r.i, !.iterations = @ + 1]
        /\ UNCHANGED <<main, time, mem, trace>>

\* the loop condition fails: process_data returns
LoopReturn ==
    /\ wire.running
    /\ ~rx_condition(comm, wire.len, wire.i)
    /\ wire' = [wire EXCEPT !.running = FALSE, !.pos = @ + wire.i]
    /\ trace' = [trace EXCEPT !.op = "return"]
    /\ UNCHANGED <<comm, main, time, mem>>

\* the caller answers the request it holds
LoopSendResponse == ~wire.running /\ comm.m_request_received /\ SendResponse

LoopWaitNextRequest == ~wire.running /\ WaitNextRequest

LoopPopData == ~wire.running /\ PopData

NextLoop ==
    \/ LoopCall
    \/ LoopIteration
    \/ LoopReturn
    \/ LoopSendResponse
    \/ LoopWaitNextRequest
    \/ LoopPopData

SpecLoop == InitLoop /\ [][NextLoop]_vars

(***************************************************************************)
(* The fixed-layout encoders and decoders applied to values of each kind.  *)
(* A 32-bit value is given by its two 16-bit halves.                       *)
(***************************************************************************)
CodecKinds == {"u16", "u32", "address"}

Halves == {0, 1, 255, 256, 4660, 32767, 32768, 65280, 65535}

CodecValues(kind) ==
    CASE kind = "u16" -> 0..65535
      [] kind = "address" -> 0..(256 ^ AddrSize - 1)
      [] OTHER -> {[hi |-> h, lo |-> l] : h \in Halves, l \in Halves}

\* the number of bytes of a value of each kind on the wire
CodecWidth(kind) ==
    CASE kind = "u16" -> 2
      [] kind = "u32" -> 4
      [] OTHER -> AddrSize

\* the encoder of each kind writes at buf[off]; returns the buffer
CodecEncodeAt(kind, x, buf, off) ==
    CASE kind = "u16" -> Memcpy(buf, off, encode_16_bits_big_endian(x))
      [] kind = "u32" -> Memcpy(buf, off, encode_32_bits_big_endian(U32Make(x.hi, x.lo)))
      [] OTHER -> Memcpy(buf, off, encode_address_big_endian(x))

\* the decoder of each kind reads at buf[off]
CodecDecodeAt(kind, buf, off) ==
    CASE kind = "u16" -> decode_16_bits_big_endian(buf, off)
      [] kind = "u32" ->
            [hi |-> U32Hi(decode_32_bits_big_endian(buf, off)),
             lo |-> U32Lo(decode_32_bits_big_endian(buf, off))]
      [] OTHER -> decode_address_big_endian(buf, off)

\* a buffer of ten bytes, none of them written by an encoder yet
CodecBuffers == {[k \in 1..10 |-> v] : v \in {0, 255}}

InitCodec ==
    /\ comm = CommInit(U32Zero)
    /\ main = [m_processing_request |-> FALSE, m_disconnect_pending |-> FALSE,
               m_config |-> InitConfig]
    /\ mem = InitMem
    /\ time = U32Zero
    /\ wire = [script |-> "codec"]
    /\ \E kind \in CodecKinds :
          trace \in {[op |-> "value", kind |-> kind, x |-> x, buf |-> buf, off |-> 0,
                      before |-> buf, y |-> x] :
                     x \in CodecValues(kind), buf \in CodecBuffers}

CodecEncode ==
    \E off \in {0, 3} :
        /\ trace.op = "value"
        /\ trace' = [trace EXCEPT !.op = "encode", !.off = off,
                                  !.buf = CodecEncodeAt(trace.kind, trace.x, @, off),
                                  !.y = IF trace.kind = "u32" THEN [hi |-> 0, lo |-> 0] ELSE 0]
        /\ UNCHANGED <<comm, main, time, mem, wire>>

CodecDecode ==
    /\ trace.op = "encode"
    /\ trace' = [trace EXCEPT !.op = "decode",
                              !.y = CodecDecodeAt(trace.kind, trace.buf, trace.off)]
    /\ UNCHANGED <<comm, main, time, mem, wire>>

NextCodec == CodecEncode \/ CodecDecode

SpecCodec == InitCodec /\ [][NextCodec]_vars

(***************************************************************************)
(* Collection: bulk push and pop, and clear.  An access to _data outside   *)
(* 0..SIZE-1 is recorded in oob; a read there yields an arbitrary value    *)
(* and a write there lands outside the array, in memory that is not part   *)
(* of the Collection.  The behaviours stop at the first such access.       *)
(***************************************************************************)
InData(idx) == idx \in 0..(CollectionSize - 1)

\* Collection::clear()
clear(c) ==
    [c EXCEPT !._nbItem = 0, !._head = 0, !._tail = 0,
              !._error = [underrun |-> FALSE, overrun |-> FALSE]]

\* Collection::pop(T* dst, unsigned short n); dst is the caller's buffer and
\* garbage what a read outside _data yields
pop_n(c, dst, n0, garbage) ==
    LET clamp == n0 > c._nbItem
        n     == IF clamp THEN c._nbItem ELSE n0
        c1    == IF clamp THEN [c EXCEPT !._error.underrun = TRUE] ELSE c
        rd(idx) == IF InData(idx) THEN c._data[idx] ELSE garbage
    IN  IF c.TYPE = "FIFO"
        THEN LET mid   == Min(CollectionSize - c._tail, n)
                 wraps == c._tail + mid >= CollectionSize
                 idx(k) == IF k <= mid THEN c._tail + k - 1
                           ELSE IF wraps THEN k - mid - 1 ELSE -1
                 done  == IF wraps THEN n ELSE mid
             IN  [c |-> [c1 EXCEPT !._tail = IF wraps THEN n - mid ELSE c._tail + mid,
                                   !._nbItem = @ - n],
                  success |-> ~clamp,
                  dst |-> [k \in 1..Len(dst) |-> IF k <= done THEN rd(idx(k)) ELSE dst[k]],
                  oob |-> \E k \in 1..done : ~InData(idx(k))]
        ELSE IF c._head > c._tail
        THEN [c |-> [c1 EXCEPT !._head = (c._head - n) % 65536, !._nbItem = @ - n],
              success |-> ~clamp,
              dst |-> [k \in 1..Len(dst) |-> IF k <= n THEN rd(c._head - k) ELSE dst[k]],
              oob |-> \E k \in 1..n : ~InData(c._head - k)]
        ELSE LET mid == Min(c._head, n)
             IN  [c |-> [c1 EXCEPT !._head = CollectionSize - (n - mid), !._nbItem = @ - n],
                  success |-> ~clamp,
                  dst |-> [k \in 1..Len(dst) |->
                              IF k <= n - mid THEN rd(CollectionSize - k)
                              ELSE IF k <= mid THEN rd(c._head - k)
                              ELSE dst[k]],
                  oob |-> \/ \E k \in 1..mid : ~InData(c._head - k)
                          \/ \E k \in 1..(n - mid) : ~InData(CollectionSize - k)]

\* Collection::push(const T* src, unsigned short n)
push_n(c, src) ==
    LET n0    == Len(src)
        clamp == n0 > CollectionSize - c._nbItem
        n     == IF clamp THEN CollectionSize - c._nbItem ELSE n0
        c1    == IF clamp THEN [c EXCEPT !._error.overrun = TRUE] ELSE c
        mid   == Min(CollectionSize - c._head, n)
        head1 == IF c._head + mid >= CollectionSize THEN 0 ELSE c._head + mid
        idx(k) == IF k <= mid THEN c._head + k - 1 ELSE head1 + k - mid - 1
    IN  [c |-> [c1 EXCEPT !._data = [d \in DOMAIN @ |->
                                        IF \E k \in 1..n : idx(k) = d
                                        THEN src[CHOOSE k \in 1..n :
                                                    /\ idx(k) = d
                                                    /\ \A q \in 1..n : idx(q) = d => q <= k]
                                        ELSE @[d]],
                          !._head = head1 + (n - mid),
                          !._nbItem = @ + n],
         success |-> ~clamp,
         oob |-> \E k \in 1..n : ~InData(idx(k))]

\* the caller's values, the largest bulk length and the caller's buffers
BulkElements == {1, 2}

BulkLens == 0..(CollectionSize + 1)

RECURSIVE SeqsOfLen(_, _)
SeqsOfLen(S, n) ==
    IF n = 0 THEN {<<>>}
    ELSE {Append(s, x) : s \in SeqsOfLen(S, n - 1), x \in S}

BulkSources == UNION {SeqsOfLen(BulkElements, n) : n \in BulkLens}

\* comm is the Collection; trace holds the last call: its arguments, what
\* it returned and wrote to the caller's buffer, and the Collection before
InitBulk ==
    /\ comm \in {CollectionInit(t) : t \in {"FIFO", "STACK"}}
    /\ main = [m_processing_request |-> FALSE, m_disconnect_pending |-> FALSE,
               m_config |-> InitConfig]
    /\ mem = InitMem
    /\ time = U32Zero
    /\ wire = [script |-> "bulk"]
    /\ trace = [op |-> "Collection", success |-> TRUE, n |-> 0, src |-> <<>>,
                dst |-> <<>>, oob |-> FALSE, before |-> comm]

BulkPushOne ==
    /\ ~trace.oob
    /\ \E element \in BulkElements :
        \E r \in {push(comm, element)} :
            /\ comm' = r.c
            /\ trace' = [op |-> "push", success |-> r.success, n |-> 1,
                         src |-> <<element>>, dst |-> <<>>,
                         oob |-> r.success /\ ~InData(comm._head), before |-> comm]
            /\ UNCHANGED <<main, time, mem, wire>>

BulkPopOne ==
    /\ ~trace.oob
    /\ \E r \in {pop(comm, 0)} :
        /\ comm' = r.c
        /\ trace' = [op |-> "pop", success |-> r.success, n |-> 1, src |-> <<>>,
                     dst |-> <<r.element>>,
                     oob |-> /\ r.success
                             /\ ~InData(IF comm.TYPE = "FIFO" THEN comm._tail ELSE r.c._head),
                     before |-> comm]
        /\ UNCHANGED <<main, time, mem, wire>>

BulkPush ==
    /\ ~trace.oob
    /\ \E src \in BulkSources :
        \E r \in {push_n(comm, src)} :
            /\ comm' = r.c
            /\ trace' = [op |-> "push_n", success |-> r.success, n |-> Len(src),
                         src |-> src, dst |-> <<>>, oob |-> r.oob, before |-> comm]
            /\ UNCHANGED <<main, time, mem, wire>>

BulkPop ==
    /\ ~trace.oob
    /\ \E n \in BulkLens, garbage \in BulkElements \cup {0} :
        \E r \in {pop_n(comm, [k \in 1..(CollectionSize + 1) |-> 0], n, garbage)} :
            /\ comm' = r.c
            /\ trace' = [op |-> "pop_n", success |-> r.success, n |-> n, src |-> <<>>,
                         dst |-> r.dst, oob |-> r.oob, before |-> comm]
            /\ UNCHANGED <<main, time, mem, wire>>

BulkClear ==
    /\ ~trace.oob
    /\ comm' = clear(comm)
    /\ trace' = [op |-> "clear", success |-> TRUE, n |-> 0, src |-> <<>>, dst |-> <<>>,
                 oob |-> FALSE, before |-> comm]
    /\ UNCHANGED <<main, time, mem, wire>>

NextBulk == BulkPushOne \/ BulkPopOne \/ BulkPush \/ BulkPop \/ BulkClear

SpecBulk == InitBulk /\ [][NextBulk]_vars

(***************************************************************************)
(* Config as the integrator builds it before MainHandler::init copies it.  *)
(* comm is the integrator's Config, main.m_config the handler's copy.      *)
(***************************************************************************)
\* variant of Config::clear that leaves the range counts as they are
config_clear_keep_count(cfg) ==
    [cfg EXCEPT !.max_bitrate = U32Zero,
                !.m_forbidden_address_ranges = [i \in DOMAIN @ |-> [@[i] EXCEPT !.set = FALSE]],
                !.m_readonly_address_ranges = [i \in DOMAIN @ |-> [@[i] EXCEPT !.set = FALSE]]]

\* Config::clear(): start and end of the entries are left as they are
config_clear(cfg) ==
    [cfg EXCEPT !.max_bitrate = U32Zero,
                !.m_forbidden_address_ranges = [i \in DOMAIN @ |-> [@[i] EXCEPT !.set = FALSE]],
                !.m_readonly_address_ranges = [i \in DOMAIN @ |-> [@[i] EXCEPT !.set = FALSE]],
                !.m_forbidden_range_count = 0,
                !.m_readonly_range_count = 0]

\* return value of Config::add_forbidden_address_range
add_forbidden_accepts(cfg) ==
    ~(cfg.m_forbidden_range_count >= SCRUTINY_FORBIDDEN_ADDRESS_RANGE_COUNT)

\* return value of Config::add_readonly_address_range
add_readonly_accepts(cfg) ==
    ~(cfg.m_readonly_range_count >= SCRUTINY_READONLY_ADDRESS_RANGE_COUNT)

\* the two loops of Config::copy_from, from entry i on
RECURSIVE copy_forbidden_from(_, _, _)
copy_forbidden_from(dst, src, i) ==
    IF i > SCRUTINY_FORBIDDEN_ADDRESS_RANGE_COUNT THEN dst
    ELSE copy_forbidden_from(
             IF src.m_forbidden_address_ranges[i].set
             THEN add_forbidden_address_range(dst, src.m_forbidden_address_ranges[i].start,
                                              src.m_forbidden_address_ranges[i].end)
             ELSE dst,
             src, i + 1)

RECURSIVE copy_readonly_from(_, _, _)
copy_readonly_from(dst, src, i) ==
    IF i > SCRUTINY_READONLY_ADDRESS_RANGE_COUNT THEN dst
    ELSE copy_readonly_from(
             IF src.m_readonly_address_ranges[i].set
             THEN add_readonly_address_range(dst, src.m_readonly_address_ranges[i].start,
                                             src.m_readonly_address_ranges[i].end)
             ELSE dst,
             src, i + 1)

\* Config::copy_from(const Config* src)
copy_from(dst, src) ==
    copy_readonly_from(
        copy_forbidden_from([config_clear(dst) EXCEPT !.max_bitrate = src.max_bitrate], src, 1),
        src, 1)

\* the ranges the integrator registers and the blocks probed against them
ConfigRanges == {ForbiddenRange, ReadonlyRange}

ConfigBlocks ==
    {[start_address |-> a, length |-> n] :
        a \in {0, ForbiddenRange.start, ReadonlyRange.end}, n \in {0, 1}}

\* trace.forbidden and trace.readonly list the ranges accepted since the
\* last clear, in order
InitConfigure ==
    /\ comm = ConfigClear
    /\ main = [m_processing_request |-> FALSE, m_disconnect_pending |-> FALSE,
               m_config |-> ConfigClear]
    /\ mem = InitMem
    /\ time = U32Zero
    /\ wire = [script |-> "configure", initialised |-> FALSE]
    /\ trace = [op |-> "Config", result |-> TRUE, before |-> comm,
                forbidden |-> <<>>, readonly |-> <<>>,
                block |-> [start_address |-> 0, length |-> 0]]

ConfigAddForbidden ==
    /\ ~wire.initialised
    /\ \E range \in ConfigRanges :
          /\ comm' = add_forbidden_address_range(comm, range.start, range.end)
          /\ trace' = [trace EXCEPT !.op = "add_forbidden_address_range",
                                    !.result = add_forbidden_accepts(comm),
                                    !.before = comm,
                                    !.forbidden = IF add_forbidden_accepts(comm)
                                                  THEN Append(@, range) ELSE @]
    /\ UNCHANGED <<main, time, mem, wire>>

ConfigAddReadonly ==
    /\ ~wire.initialised
    /\ \E range \in ConfigRanges :
          /\ comm' = add_readonly_address_range(comm, range.start, range.end)
          /\ trace' = [trace EXCEPT !.op = "add_readonly_address_range",
                                    !.result = add_readonly_accepts(comm),
                                    !.before = comm,
                                    !.readonly = IF add_readonly_accepts(comm)
                                                 THEN Append(@, range) ELSE @]
    /\ UNCHANGED <<main, time, mem, wire>>

ConfigClearCall ==
    /\ ~wire.initialised
    /\ comm' = config_clear(comm)
    /\ trace' = [trace EXCEPT !.op = "clear", !.result = TRUE, !.before = comm,
                              !.forbidden = <<>>, !.readonly = <<>>]
    /\ UNCHANGED <<main, time, mem, wire>>

\* MainHandler::init: m_config.copy_from(config)
ConfigCopyFrom ==
    /\ ~wire.initialised
    /\ main' = [main EXCEPT !.m_config = copy_from(@, comm)]
    /\ wire' = [wire EXCEPT !.initialised = TRUE]
    /\ trace' = [trace EXCEPT !.op = "copy_from", !.result = TRUE, !.before = comm]
    /\ UNCHANGED <<comm, time, mem>>

\* the policy scans of the handler on its copy
ConfigTouches ==
    /\ wire.initialised
    /\ \E block \in ConfigBlocks, which \in {"touches_forbidden_region", "touches_readonly_region"} :
          trace' = [trace EXCEPT !.op = which,
                                 !.block = block,
                                 !.result = IF which = "touches_forbidden_region"
                                            THEN touches_forbidden_region(main.m_config, block)
                                            ELSE touches_readonly_region(main.m_config, block)]
    /\ UNCHANGED <<comm, main, time, mem, wire>>

NextConfigure ==
    \/ ConfigAddForbidden
    \/ ConfigAddReadonly
    \/ ConfigClearCall
    \/ ConfigCopyFrom
    \/ ConfigTouches

SpecConfigure == InitConfigure /\ [][NextConfigure]_vars

(***************************************************************************)
(* Claims                                                                  *)
(***************************************************************************)
FrameRequestExposed ==
    /\ comm.m_request_received
    /\ comm.m_active_request.valid
    /\ comm.m_active_request.command_id = wire.frame.cmd
    /\ comm.m_active_request.subfunction_id = wire.frame.subfn
    /\ comm.m_active_request.data_length = Len(wire.frame.data)
    /\ RequestData(comm) = wire.frame.data

\* C1: every well-formed request frame (correct CRC-32, LEN within the
\* buffer) delivered to an idle, enabled handler, in any partition into
\* chunks and with no RX timeout between chunks, makes request_received true
\* exactly once, after the last CRC byte and not before, and the exposed
\* request record equals the frame's request.
C1_WellFormedFrameAccepted ==
    (trace.op = "ReceiveData" /\ wire.clean /\ wire.frame.crc_valid) =>
        IF wire.pos < Len(wire.frame.bytes)
        THEN ~comm.m_request_received /\ wire.flips = 0
        ELSE FrameRequestExposed /\ wire.flips = 1 /\ wire.flip_pos = Len(wire.frame.bytes)


\* C2: after a successful send_response(S) the bytes returned by successive
\* pop_data calls, whatever the requested lengths, are the canonical
\* serialization of S (command|0x80, subfunction, code, length, payload,
\* CRC-32 big-endian) in order, without duplication or loss; each call
\* returns min(len, bytes remaining) and data_to_send() drops by that count.
C2_PopDataSerializes ==
    /\ (trace.op = "Process" /\ trace.sent) =>
            wire.out = <<>> /\ data_to_send(comm) = Len(wire.expect)
    /\ transmitting(comm) =>
            /\ Len(wire.out) <= Len(wire.expect)
            /\ wire.out = Take(wire.expect, Len(wire.out))
            /\ data_to_send(comm) = Len(wire.expect) - Len(wire.out)
    /\ trace.op = "PopData" =>
            /\ Len(trace.popped) = Min(trace.n, trace.to_send_before)
            /\ data_to_send(comm) = trace.to_send_before - Len(trace.popped)
            /\ ~transmitting(comm) => wire.out = wire.expect

C2_Witness ==
    /\ trace.op = "PopData"
    /\ trace.n = 2
    /\ Len(trace.popped) = 1
    /\ ~transmitting(comm)
    /\ wire.out = wire.expect
    /\ Len(wire.expect) > 9

\* C3: a received frame whose CRC field differs from the CRC-32 of its
\* header and data never makes request_received true, is never dispatched
\* (so no response answers it) and latches no RX error.
C3_BadCrcFrameDropped ==
    /\ (trace.op = "ReceiveData" /\ ~wire.frame.crc_valid) =>
            wire.flips = 0 /\ comm.m_rx_error = "None"
    /\ (trace.op = "Process" /\ trace.dispatched) => wire.frame.crc_valid

IsDiscover(f) ==
    /\ f.cmd = eCmdCommControl
    /\ f.subfn = eSubfnDiscover
    /\ Len(f.data) >= Len(DISCOVER_MAGIC)
    /\ Take(f.data, Len(DISCOVER_MAGIC)) = DISCOVER_MAGIC

\* C4: while disabled, the handler becomes enabled only by a complete
\* CRC-valid CommControl/Discover frame whose data begins with
\* DISCOVER_MAGIC; any other CRC-valid frame received while disabled is
\* dropped: not exposed as a request, not answered, enabled stays false.
C4_EnableOnlyByDiscover ==
    ~trace.enabled_before =>
        /\ comm.m_enabled =>
              /\ trace.op = "ReceiveData"
              /\ FrameDone
              /\ wire.frame.crc_valid
              /\ IsDiscover(wire.frame)
        /\ (trace.op = "ReceiveData" /\ FrameDone /\ wire.frame.crc_valid
              /\ ~IsDiscover(wire.frame)) =>
              /\ ~comm.m_enabled
              /\ ~comm.m_request_received
              /\ data_to_send(comm) = 0


(***************************************************************************)
(* Session claims.  trace.entry is the session on entry to the process     *)
(* call; the housekeeping of that call has dropped it before the dispatch  *)
(* when the heartbeat timeout had expired.                                 *)
(***************************************************************************)
HeartbeatExpired ==
    U32Geq(U32Sub(time, trace.entry.last_heartbeat_ts), U32Of(SCRUTINY_COMM_HEARTBEAT_TMEOUT_US))

ConnectedAtDispatch == trace.entry.connected /\ ~HeartbeatExpired

SessionIdAtDispatch == IF ConnectedAtDispatch THEN trace.entry.session_id ELSE U32Zero

DispatchedConnect ==
    /\ trace.op = "Process"
    /\ trace.dispatched
    /\ trace.request.command_id = eCmdCommControl
    /\ trace.request.subfunction_id = eSubfnConnect
    /\ trace.request.data = CONNECT_MAGIC

DispatchedHeartbeat ==
    /\ trace.op = "Process"
    /\ trace.dispatched
    /\ trace.request.command_id = eCmdCommControl
    /\ trace.request.subfunction_id = eSubfnHeartbeat
    /\ Len(trace.request.data) = 6

\* C5: a valid Connect dispatched while a session is active is answered
\* Busy and leaves the connected flag and the session id as they were; a
\* Connect is answered OK only when no session was active, so at most one
\* session exists.
C5_ConnectWhileConnectedIsBusy ==
    /\ (DispatchedConnect /\ ConnectedAtDispatch) =>
            /\ trace.code = eResponseCode_Busy
            /\ trace.sent /\ wire.expect[3] = eResponseCode_Busy
            /\ comm.connected
            /\ comm.session_id = trace.entry.session_id
    /\ (DispatchedConnect /\ trace.code = eResponseCode_OK) => ~ConnectedAtDispatch

C5_Witness ==
    /\ DispatchedConnect
    /\ ConnectedAtDispatch
    /\ trace.code = eResponseCode_Busy
    /\ comm.session_id = trace.entry.session_id

\* C6: a Heartbeat whose session_id differs from the current session's id
\* is answered InvalidRequest and does not restamp last_heartbeat_ts, so it
\* does not postpone the heartbeat timeout of the existing session.
C6_HeartbeatWrongIdRejected ==
    (DispatchedHeartbeat /\ SubSeq(trace.request.data, 1, 4) # SessionIdAtDispatch) =>
        /\ trace.code = eResponseCode_InvalidRequest
        /\ trace.sent /\ wire.expect[3] = eResponseCode_InvalidRequest
        /\ comm.last_heartbeat_ts = trace.entry.last_heartbeat_ts
        /\ comm.connected = ConnectedAtDispatch

C6_Witness ==
    /\ DispatchedHeartbeat
    /\ ConnectedAtDispatch
    /\ SubSeq(trace.request.data, 1, 4) # trace.entry.session_id
    /\ trace.code = eResponseCode_InvalidRequest
    /\ time # trace.entry.last_heartbeat_ts
    /\ comm.connected

\* C7: a process call that finds the session connected with
\* SCRUTINY_COMM_HEARTBEAT_TMEOUT_US or more elapsed since the last accepted
\* Heartbeat (or the Connect) drops the session without emitting a
\* response of its own, and a Heartbeat dispatched when no session is
\* active -- even one carrying the dropped session's id -- is answered
\* InvalidRequest and leaves the handler disconnected.
C7_HeartbeatTimeoutDropsSession ==
    /\ (trace.op = "Process" /\ trace.entry.connected /\ HeartbeatExpired) =>
            /\ comm.connected => (DispatchedConnect /\ trace.code = eResponseCode_OK)
            /\ ~trace.dispatched => (~trace.sent /\ ~comm.connected)
    /\ (DispatchedHeartbeat /\ ~ConnectedAtDispatch) =>
            /\ trace.code = eResponseCode_InvalidRequest
            /\ ~comm.connected

C7_Witness ==
    /\ DispatchedHeartbeat
    /\ trace.entry.connected
    /\ HeartbeatExpired
    /\ SubSeq(trace.request.data, 1, 4) = trace.entry.session_id
    /\ trace.code = eResponseCode_InvalidRequest
    /\ ~comm.connected


(***************************************************************************)
(* Memory claims.  The blocks of a request are read off the payload the    *)
(* client sent (address, 16-bit length, and for Write the data), apart     *)
(* from the parsers of the codec.                                          *)
(***************************************************************************)
RECURSIVE ReadBlocksOf(_)
ReadBlocksOf(data) ==
    IF Len(data) < AddrSize + 2 THEN <<>>
    ELSE <<[addr |-> decode_address_big_endian(data, 0),
            len |-> data[AddrSize + 1] * 256 + data[AddrSize + 2]]>>
         \o ReadBlocksOf(Drop(data, AddrSize + 2))

RECURSIVE WriteBlocksOf(_)
WriteBlocksOf(data) ==
    IF Len(data) < AddrSize + 2 THEN <<>>
    ELSE LET len == data[AddrSize + 1] * 256 + data[AddrSize + 2]
         IN  <<[addr |-> decode_address_big_endian(data, 0), len |-> len]>>
             \o WriteBlocksOf(Drop(data, Min(Len(data), AddrSize + 2 + len)))

RECURSIVE SumSeq(_)
SumSeq(s) == IF s = <<>> THEN 0 ELSE Head(s) + SumSeq(Tail(s))

WellFormedRead(data) == Len(data) > 0 /\ Len(data) % (AddrSize + 2) = 0

WellFormedWrite(data) ==
    LET blocks == WriteBlocksOf(data)
    IN  Len(data) > 0
        /\ Len(data) = SumSeq([i \in 1..Len(blocks) |-> AddrSize + 2 + blocks[i].len])

Touches(b, range) ==
    \/ b.addr >= range.start /\ b.addr <= range.end
    \/ b.addr + b.len >= range.start /\ b.addr + b.len <= range.end

DispatchedRead ==
    /\ trace.op = "Process"
    /\ trace.dispatched
    /\ trace.request.command_id = eCmdMemoryControl
    /\ trace.request.subfunction_id = eSubfnRead
    /\ WellFormedRead(trace.request.data)

DispatchedWrite ==
    /\ trace.op = "Process"
    /\ trace.dispatched
    /\ trace.request.command_id = eCmdMemoryControl
    /\ trace.request.subfunction_id = eSubfnWrite
    /\ WellFormedWrite(trace.request.data)

RequestBlocks ==
    IF trace.request.subfunction_id = eSubfnRead
    THEN ReadBlocksOf(trace.request.data)
    ELSE WriteBlocksOf(trace.request.data)

AnswerIsForbidden ==
    /\ trace.code = eResponseCode_Forbidden
    /\ trace.sent
    /\ wire.expect[3] = eResponseCode_Forbidden
    /\ Len(wire.expect) = 9

\* C8: a MemoryControl Read or Write one of whose blocks touches a
\* registered forbidden range (either bound of [start, start+length] inside
\* the range) is answered Forbidden with an empty payload, and that block is
\* neither read from nor written to target memory.
C8_ForbiddenBlockRejected ==
    \A i \in 1..3 :
        ((DispatchedRead \/ DispatchedWrite)
            /\ i <= Len(RequestBlocks)
            /\ Touches(RequestBlocks[i], ForbiddenRange)) =>
                /\ AnswerIsForbidden
                /\ \A k \in 1..Len(trace.reads) :
                        trace.reads[k] # <<RequestBlocks[i].addr, RequestBlocks[i].len>>
                /\ \A k \in 1..Len(trace.writes) :
                        trace.writes[k] # <<RequestBlocks[i].addr, RequestBlocks[i].len>>

MemSlice(m, addr, len) == [i \in 1..len |-> m[addr + i - 1]]

\* C9: a MemoryControl Write one of whose blocks touches a read-only range
\* is answered Forbidden and that block's bytes do not reach target memory;
\* a single-block Read of a block that touches the read-only range (and no
\* forbidden range, and fits the buffer) is answered OK with the memory
\* content.
C9_ReadonlyBlocksWritesOnly ==
    /\ \A i \in 1..3 :
          (DispatchedWrite /\ i <= Len(RequestBlocks)
              /\ Touches(RequestBlocks[i], ReadonlyRange)) =>
                /\ AnswerIsForbidden
                /\ \A k \in 1..Len(trace.writes) :
                        trace.writes[k] # <<RequestBlocks[i].addr, RequestBlocks[i].len>>
                /\ MemSlice(mem, RequestBlocks[i].addr, RequestBlocks[i].len)
                      = MemSlice(InitMem, RequestBlocks[i].addr, RequestBlocks[i].len)
    /\ (DispatchedRead /\ Len(RequestBlocks) = 1
            /\ Touches(RequestBlocks[1], ReadonlyRange)
            /\ ~Touches(RequestBlocks[1], ForbiddenRange)
            /\ AddrSize + 2 + RequestBlocks[1].len <= tx_buffer_size) =>
                /\ trace.code = eResponseCode_OK
                /\ trace.sent
                /\ SubSeq(wire.expect, 1, 5) =
                      <<eCmdMemoryControl + 128, eSubfnRead, eResponseCode_OK,
                        0, AddrSize + 2 + RequestBlocks[1].len>>
                /\ SubSeq(wire.expect, 6, Len(wire.expect) - 4) =
                      trace.request.data
                      \o MemSlice(mem, RequestBlocks[1].addr, RequestBlocks[1].len)

C9_Witness ==
    /\ DispatchedWrite
    /\ Len(RequestBlocks) = 1
    /\ Touches(RequestBlocks[1], ReadonlyRange)
    /\ ~Touches(RequestBlocks[1], ForbiddenRange)
    /\ AnswerIsForbidden
    /\ trace.writes = <<>>

\* C10: a well-formed MemoryControl Read whose blocks touch no forbidden
\* range, with T the sum over its blocks of (address size + 2 + length), is
\* answered OK with a payload of exactly T bytes when T <= tx_buffer_size
\* and Overflow with an empty payload otherwise.
C10_ReadOverflowRule ==
    (DispatchedRead
        /\ \A i \in 1..Len(RequestBlocks) : ~Touches(RequestBlocks[i], ForbiddenRange)) =>
        LET T == SumSeq([i \in 1..Len(RequestBlocks) |-> AddrSize + 2 + RequestBlocks[i].len])
        IN  /\ trace.sent
            /\ IF T <= tx_buffer_size
               THEN /\ trace.code = eResponseCode_OK
                    /\ Len(wire.expect) = 9 + T
               ELSE /\ trace.code = eResponseCode_Overflow
                    /\ Len(wire.expect) = 9


MalformedMemoryRequest(req) ==
    /\ req.command_id = eCmdMemoryControl
    /\ \/ req.subfunction_id = eSubfnRead /\ Len(req.data) % (AddrSize + 2) # 0
       \/ req.subfunction_id = eSubfnWrite /\ Len(req.data) > 0 /\ ~WellFormedWrite(req.data)

\* C11: a MemoryControl Read whose payload length is not a multiple of
\* (address size + 2), or a Write whose payload ends inside a block record,
\* is answered InvalidRequest with an empty payload, and the process call
\* that answers it leaves target memory as it was and reads none of it.
C11_MalformedMemoryRequestRejected ==
    [][(trace'.op = "Process" /\ trace'.dispatched /\ MalformedMemoryRequest(trace'.request)) =>
            /\ trace'.code = eResponseCode_InvalidRequest
            /\ trace'.sent
            /\ wire'.expect[3] = eResponseCode_InvalidRequest
            /\ Len(wire'.expect) = 9
            /\ mem' = mem
            /\ trace'.reads = <<>>
            /\ trace'.writes = <<>>]_vars

C11_Witness ==
    /\ trace.op = "Process"
    /\ trace.dispatched
    /\ MalformedMemoryRequest(trace.request)
    /\ trace.request.subfunction_id = eSubfnWrite
    /\ Len(WriteBlocksOf(trace.request.data)) = 2
    /\ trace.code = eResponseCode_InvalidRequest
    /\ mem = InitMem


\* C12: a receive_data call made while the CommHandler is Transmitting
\* changes nothing in it: RX sub-state and byte counters, request record,
\* last-RX timestamp, shared buffer and the bytes still to be popped.
C12_ReceiveWhileTransmittingIgnored ==
    [][(trace'.op = "ReceiveData" /\ wire' # wire /\ transmitting(comm)) => comm' = comm]_vars

C12_Witness ==
    /\ trace.op = "ReceiveData"
    /\ trace.state_before = "Transmitting"
    /\ wire.pos = Len(wire.frame.bytes)
    /\ wire.nframes = 2
    /\ data_to_send(comm) = Len(wire.expect)

ResponsePayload(c) == SubSeq(c.m_buffer, 1, c.m_active_response.data_length)

\* C13: the shared buffer has a single owner.  While a response is being
\* transmitted the response record and the payload bytes in the buffer are
\* the ones handed to send_response; no step that leaves the handler
\* Transmitting (receive_data, process, a partial pop) changes them, and
\* receive_data does not write into the buffer.
C13_SharedBufferSingleOwner ==
    /\ [](transmitting(comm) =>
            /\ Serialize(comm.m_active_response, ResponsePayload(comm)) = wire.expect
            /\ comm.m_active_response.crc = SubSeq(wire.expect, Len(wire.expect) - 3,
                                                   Len(wire.expect)))
    /\ [][(transmitting(comm) /\ transmitting(comm')) =>
              /\ comm'.m_active_response = comm.m_active_response
              /\ ResponsePayload(comm') = ResponsePayload(comm)]_vars
    /\ [][(transmitting(comm) /\ trace'.op = "ReceiveData") =>
              comm'.m_buffer = comm.m_buffer]_vars

C13_Witness ==
    /\ trace.op = "ReceiveData"
    /\ trace.state_before = "Transmitting"
    /\ transmitting(comm)
    /\ comm.m_active_response.data_length > 0
    /\ Len(wire.out) > 0
    /\ Len(wire.out) < Len(wire.expect)


\* C14: every response handed to transmission with a response code other
\* than OK has data_length 0 and no payload on the wire, also when the
\* error was found after part of the payload had been encoded.
C14_ErrorResponseIsEmpty ==
    /\ (trace.op = "Process" /\ trace.sent /\ trace.code # eResponseCode_OK) =>
            /\ comm.m_active_response.response_code = trace.code
            /\ comm.m_active_response.data_length = 0
            /\ SubSeq(wire.expect, 3, 5) = <<trace.code, 0, 0>>
            /\ Len(wire.expect) = 9
    /\ (transmitting(comm) /\ comm.m_active_response.response_code # eResponseCode_OK) =>
            comm.m_active_response.data_length = 0

C14_Witness ==
    /\ trace.op = "Process"
    /\ trace.sent
    /\ trace.code = eResponseCode_Overflow
    /\ trace.reads # <<>>
    /\ comm.m_active_response.data_length = 0


UndefinedRequest(req) ==
    \/ req.command_id \notin eCmdGetInfo..eCmdUserCommand
    \/ req.command_id = eCmdGetInfo
          /\ req.subfunction_id \notin eSubfnGetProtocolVersion..eSubfnGetSupportedFeatures
    \/ req.command_id = eCmdCommControl
          /\ req.subfunction_id \notin eSubfnDiscover..eSubfnDisconnect
    \/ req.command_id = eCmdMemoryControl
          /\ req.subfunction_id \notin eSubfnRead..eSubfnWrite

\* C15: a valid request whose command id is none of the five defined
\* commands, or whose subfunction is not defined for GetInfo, CommControl
\* or MemoryControl, is answered UnsupportedFeature.
C15_UndefinedRequestUnsupported ==
    (trace.op = "Process" /\ trace.dispatched /\ UndefinedRequest(trace.request)) =>
        /\ trace.code = eResponseCode_UnsupportedFeature
        /\ trace.sent
        /\ wire.expect[3] = eResponseCode_UnsupportedFeature

\* C16: a DataLogControl request and a UserCommand request (no user
\* callback exists) are each answered UnsupportedFeature with an empty
\* payload.
C16_UnimplementedCommandUnsupported ==
    (trace.op = "Process" /\ trace.dispatched
        /\ trace.request.command_id \in {eCmdDataLogControl, eCmdUserCommand}) =>
        /\ trace.sent
        /\ SubSeq(wire.expect, 3, 5) = <<eResponseCode_UnsupportedFeature, 0, 0>>
        /\ Len(wire.expect) = 9


DispatchedDisconnect ==
    /\ trace.op = "Process"
    /\ trace.dispatched
    /\ trace.request.command_id = eCmdCommControl
    /\ trace.request.subfunction_id = eSubfnDisconnect
    /\ Len(trace.request.data) = 4

AgentChanges == comm' # comm \/ main' # main \/ time' # time

FrameDropped ==
    /\ trace.op = "ReceiveData"
    /\ FrameDone
    /\ \/ ~wire.frame.crc_valid
       \/ ~trace.enabled_before /\ ~IsDiscover(wire.frame)

\* C18: after a frame has been dropped (wrong CRC, or a non-Discover frame
\* received while disabled) the RX FSM is back at WaitForCommand with all its
\* byte counters cleared.  The frame considered is the first one delivered to
\* a freshly constructed handler, with no time elapsing during its reception.
C18_DroppedFrameClearsReception ==
    (FrameDropped /\ wire.nframes = 1 /\ wire.ticks = 0) =>
        /\ comm.m_rx_state = "WaitForCommand"
        /\ comm.m_rx_error = "None"
        /\ ~comm.m_request_received
        /\ comm.m_length_bytes_received = 0
        /\ comm.m_data_bytes_received = 0
        /\ comm.m_crc_bytes_received = 0


\* C20: once the RX FSM is in Error, every byte delivered by receive_data is
\* ignored and the FSM stays in Error with the Overflow error latched,
\* whatever time elapses between the calls.
C20_ErrorStateLatched ==
    (trace.op = "ReceiveData" /\ trace.rx_before.m_rx_state = "Error") =>
        /\ comm.m_rx_state = "Error"
        /\ comm.m_rx_error = "Overflow"
        /\ ~comm.m_request_received


PartialFrame(c) ==
    c.m_rx_state \in {"WaitForSubfunction", "WaitForLength", "WaitForData", "WaitForCRC"}

\* number of bytes of the frame in flight the RX FSM has consumed
Parsed(c) ==
    CASE c.m_rx_state = "WaitForSubfunction" -> 1
      [] c.m_rx_state = "WaitForLength" -> 2 + c.m_length_bytes_received
      [] c.m_rx_state = "WaitForData" -> 4 + c.m_data_bytes_received
      [] c.m_rx_state = "WaitForCRC" ->
            4 + c.m_active_request.data_length + c.m_crc_bytes_received
      [] OTHER -> 0

\* the RX FSM has consumed exactly the bytes of the frame in flight
AlignedReception ==
    /\ Parsed(comm) = wire.pos
    /\ comm.m_rx_state # "WaitForCRC" => comm.m_crc_bytes_received = 0

ReceiveStep == trace'.op = "ReceiveData" /\ wire' # wire

StartsFrame == wire'.nframes = wire.nframes + 1

Delivered ==
    SubSeq(wire'.frame.bytes, (IF StartsFrame THEN 0 ELSE wire.pos) + 1, wire'.pos)

RxGapElapsed ==
    U32Geq(U32Sub(time, comm.m_last_rx_timestamp), U32Of(SCRUTINY_COMM_TIMEOUT_US))

\* c holds the first bytes d (at most three) of a frame and nothing else
HoldsFrameStart(c, d) ==
    /\ c.m_rx_error = "None"
    /\ ~c.m_request_received
    /\ c.m_active_request.command_id = d[1] % 128
    /\ c.m_crc_bytes_received = 0
    /\ c.m_data_bytes_received = 0
    /\ Len(d) = 1 => c.m_rx_state = "WaitForSubfunction"
    /\ Len(d) >= 2 =>
          /\ c.m_active_request.subfunction_id = d[2]
          /\ c.m_rx_state = "WaitForLength"
          /\ c.m_length_bytes_received = Len(d) - 2
    /\ Len(d) = 3 => c.m_active_request.data_length = d[3] * 256

\* C19: when bytes arrive SCRUTINY_COMM_TIMEOUT_US or more after the previous
\* bytes of a partially received frame, the partial frame is discarded, no
\* response is produced and no error is latched, and the new bytes are parsed
\* as the start of a new frame (a whole well-formed frame is accepted); with
\* a shorter gap the frame in flight continues.
C19_RxTimeoutRestartsFrame ==
    /\ [][(ReceiveStep /\ PartialFrame(comm) /\ ~transmitting(comm) /\ RxGapElapsed) =>
              /\ data_to_send(comm') = 0
              /\ comm'.m_tx_error = comm.m_tx_error
              /\ Len(Delivered) <= 3 => HoldsFrameStart(comm', Delivered)
              /\ (StartsFrame /\ FrameDone' /\ wire'.frame.crc_valid
                    /\ (comm.m_enabled \/ IsDiscover(wire'.frame))) =>
                    FrameRequestExposed' /\ comm'.m_rx_error = "None"]_vars
    /\ [][(ReceiveStep /\ PartialFrame(comm) /\ ~transmitting(comm) /\ ~RxGapElapsed
              /\ ~StartsFrame /\ AlignedReception) =>
              IF ~FrameDone'
              THEN /\ PartialFrame(comm')
                   /\ Parsed(comm') = wire'.pos
                   /\ ~comm'.m_request_received
              ELSE (wire.frame.crc_valid /\ (comm.m_enabled \/ IsDiscover(wire.frame))) =>
                       FrameRequestExposed']_vars

C19_Witness ==
    /\ trace.op = "ReceiveData"
    /\ PartialFrame(trace.rx_before)
    /\ trace.state_before # "Transmitting"
    /\ U32Geq(U32Sub(time, trace.rx_before.m_last_rx_timestamp), U32Of(SCRUTINY_COMM_TIMEOUT_US))
    /\ wire.nframes = 2
    /\ FrameDone
    /\ FrameRequestExposed
    /\ comm.m_rx_error = "None"

C19_WitnessContinue ==
    /\ trace.op = "ReceiveData"
    /\ PartialFrame(trace.rx_before)
    /\ time # U32Zero
    /\ ~U32Geq(U32Sub(time, trace.rx_before.m_last_rx_timestamp), U32Of(SCRUTINY_COMM_TIMEOUT_US))
    /\ wire.nframes = 1
    /\ FrameDone
    /\ FrameRequestExposed


\* the oversize frame in flight started on a receiver waiting for a command
\* and no time has passed since
OversizeFrameAligned ==
    /\ wire.frame.kind = "overflow"
    /\ wire.clean \/ (wire.nframes = 1 /\ wire.ticks = 0)

\* C21: a frame whose header announces a length above SCRUTINY_BUFFER_SIZE
\* puts the RX FSM in Error with the Overflow error at the first byte that
\* follows the header; none of its bytes is copied into the buffer, no
\* request is exposed or dispatched and no response is sent.
C21_OversizeFrameRejected ==
    /\ []((trace.op = "ReceiveData" /\ OversizeFrameAligned) =>
            /\ ~comm.m_request_received
            /\ data_to_send(comm) = 0
            /\ IF wire.pos > 4
               THEN comm.m_rx_state = "Error" /\ comm.m_rx_error = "Overflow"
               ELSE comm.m_rx_state # "Error" /\ comm.m_rx_error = "None")
    /\ [][(ReceiveStep /\ OversizeFrameAligned') => comm'.m_buffer = comm.m_buffer]_vars
    /\ []((trace.op = "Process" /\ trace.rx_before.m_rx_state = "Error") =>
            ~trace.dispatched /\ ~trace.sent)
    /\ [](comm.m_rx_state = "Error" =>
            /\ comm.m_rx_error = "Overflow"
            /\ ~comm.m_request_received
            /\ data_to_send(comm) = 0)

C21_Witness ==
    /\ trace.op = "ReceiveData"
    /\ OversizeFrameAligned
    /\ wire.clean
    /\ FrameDone
    /\ comm.m_rx_state = "Error"
    /\ comm.m_rx_error = "Overflow"
    /\ comm.m_enabled


SendRefusalCase ==
    \/ ~trace.enabled_before
    \/ trace.state_before # "Idle"
    \/ trace.n > SCRUTINY_BUFFER_SIZE

\* C22: send_response returns false and starts no transmission when the
\* handler is disabled, when it is not Idle (TxError Busy) or when the
\* response is longer than the buffer (TxError Overflow); a send_response
\* refused during a transmission leaves it untouched, so the bytes popped are
\* the frame of the first response, and a send_response on the enabled idle
\* handler, in particular after the last byte was popped, succeeds.
C22_SendResponseRefusals ==
    /\ []((trace.op = "SendResponse" /\ SendRefusalCase) =>
            /\ ~trace.sent
            /\ data_to_send(comm) = trace.to_send_before
            /\ comm.m_state = trace.state_before
            /\ (trace.enabled_before /\ trace.state_before # "Idle") =>
                    comm.m_tx_error = "Busy"
            /\ (trace.enabled_before /\ trace.state_before = "Idle") =>
                    comm.m_tx_error = "Overflow")
    /\ [][(trace'.op = "SendResponse" /\ trace' # trace /\ transmitting(comm)) =>
              /\ comm' = [comm EXCEPT !.m_tx_error = "Busy"]
              /\ wire' = wire]_vars
    /\ [](transmitting(comm) =>
            /\ wire.out = Take(wire.expect, Len(wire.out))
            /\ data_to_send(comm) = Len(wire.expect) - Len(wire.out)
            /\ data_to_send(comm) > 0)
    /\ []((trace.op = "PopData" /\ ~transmitting(comm)) =>
            /\ wire.out = wire.expect
            /\ comm.m_state = "Idle")
    /\ []((trace.op = "SendResponse" /\ ~SendRefusalCase) =>
            /\ trace.sent
            /\ transmitting(comm)
            /\ wire.out = <<>>
            /\ Len(wire.expect) = 9 + trace.n
            /\ wire.expect[1] = trace.request.command_id + 128
            /\ data_to_send(comm) = Len(wire.expect))

C22_Witness ==
    /\ trace.op = "SendResponse"
    /\ ~trace.sent
    /\ trace.state_before = "Transmitting"
    /\ comm.m_tx_error = "Busy"
    /\ Len(wire.out) > 0
    /\ Len(wire.out) < Len(wire.expect)
    /\ wire.expect[1] # trace.request.command_id + 128

\* a send_response accepted right after the frame of an earlier response
\* has been popped whole
C22_WitnessNextSend ==
    /\ trace.op = "SendResponse"
    /\ trace.sent
    /\ Len(trace.popped) >= 9
    /\ trace.popped[1] # wire.expect[1]
    /\ transmitting(comm)


\* C23: a Heartbeat carrying the current session id, dispatched before the
\* heartbeat timeout has expired, is answered OK with the session id followed
\* by the bitwise complement of the 16-bit challenge and restamps the
\* session; a session whose last stamp is less than
\* SCRUTINY_COMM_HEARTBEAT_TMEOUT_US old is never dropped, however long ago
\* it was created.
C23_HeartbeatKeepsSession ==
    /\ []((DispatchedHeartbeat /\ ConnectedAtDispatch
              /\ SubSeq(trace.request.data, 1, 4) = trace.entry.session_id) =>
            /\ trace.code = eResponseCode_OK
            /\ trace.sent
            /\ Len(wire.expect) = 15
            /\ SubSeq(wire.expect, 1, 5) =
                   <<eCmdCommControl + 128, eSubfnHeartbeat, eResponseCode_OK, 0, 6>>
            /\ SubSeq(wire.expect, 6, 9) = trace.entry.session_id
            /\ SubSeq(wire.expect, 10, 11) =
                   <<255 - trace.request.data[5], 255 - trace.request.data[6]>>
            /\ comm.connected
            /\ comm.session_id = trace.entry.session_id
            /\ comm.last_heartbeat_ts = time)
    /\ [][(comm.connected /\ ~main.m_disconnect_pending
              /\ ~U32Geq(U32Sub(time', comm.last_heartbeat_ts),
                         U32Of(SCRUTINY_COMM_HEARTBEAT_TMEOUT_US))) =>
              comm'.connected /\ comm'.session_id = comm.session_id]_vars

C23_Witness ==
    /\ DispatchedHeartbeat
    /\ ConnectedAtDispatch
    /\ trace.code = eResponseCode_OK
    /\ comm.connected
    /\ trace.entry.last_heartbeat_ts # wire.connected_at
    /\ U32Geq(U32Sub(time, wire.connected_at), U32Of(SCRUTINY_COMM_HEARTBEAT_TMEOUT_US))


\* the payload a Read of the given blocks is to be answered with
RECURSIVE ReadPayloadOf(_, _)
ReadPayloadOf(blocks, m) ==
    IF blocks = <<>> THEN <<>>
    ELSE encode_address_big_endian(Head(blocks).addr)
         \o <<(Head(blocks).len \div 256) % 256, Head(blocks).len % 256>>
         \o MemSlice(m, Head(blocks).addr, Head(blocks).len)
         \o ReadPayloadOf(Tail(blocks), m)

\* C24: a MemoryControl Read with several blocks, none touching a forbidden
\* range and whose response fits the buffer, is answered OK with, for each
\* block in request order, the address and length as requested followed by
\* the bytes of target memory at that address; the blocks read from memory
\* are the requested ones.
C24_MultiBlockReadPayload ==
    (DispatchedRead
        /\ Len(RequestBlocks) >= 2
        /\ \A i \in 1..Len(RequestBlocks) : ~Touches(RequestBlocks[i], ForbiddenRange)
        /\ SumSeq([k \in 1..Len(RequestBlocks) |-> AddrSize + 2 + RequestBlocks[k].len])
              <= tx_buffer_size) =>
        /\ trace.code = eResponseCode_OK
        /\ trace.sent
        /\ trace.reads = [i \in 1..Len(RequestBlocks) |->
                              <<RequestBlocks[i].addr, RequestBlocks[i].len>>]
        /\ SubSeq(wire.expect, 6, Len(wire.expect) - 4) = ReadPayloadOf(RequestBlocks, mem)


ProcessStep == trace'.op = "Process" /\ trace' # trace

\* C25: a request is dispatched only when it has been validated and no
\* request is being processed; while one is being processed (its response
\* is being transmitted) further process calls dispatch nothing and change
\* neither target memory nor the session, and no other request is received;
\* the request is released, and a new one can be received, only once its
\* response has been popped whole.
C25_OneRequestAtATime ==
    /\ [][(ProcessStep /\ trace'.dispatched) =>
              /\ comm.m_request_received
              /\ ~main.m_processing_request
              /\ ~transmitting(comm)
              /\ trace'.request.command_id = comm.m_active_request.command_id
              /\ trace'.request.data = RequestData(comm)]_vars
    /\ [][(ProcessStep /\ comm.m_request_received /\ ~main.m_processing_request) =>
              trace'.dispatched]_vars
    /\ [][(ProcessStep /\ main.m_processing_request) =>
              /\ ~trace'.dispatched
              /\ ~trace'.sent
              /\ mem' = mem
              /\ trace'.writes = <<>>
              /\ (~main.m_disconnect_pending
                    /\ ~U32Geq(U32Sub(time', comm.last_heartbeat_ts),
                               U32Of(SCRUTINY_COMM_HEARTBEAT_TMEOUT_US))) =>
                    Session(comm') = Session(comm)]_vars
    /\ [](transmitting(comm) =>
              /\ main.m_processing_request
              /\ comm.m_request_received
              /\ wire.out = Take(wire.expect, Len(wire.out)))
    /\ [][transmitting(comm) =>
              /\ comm'.m_active_request = comm.m_active_request
              /\ comm'.m_request_received = comm.m_request_received
              /\ (~transmitting(comm') => wire'.out = wire'.expect)]_vars
    /\ [][(~comm.m_request_received /\ comm'.m_request_received) =>
              /\ trace'.op = "ReceiveData"
              /\ ~main.m_processing_request
              /\ ~transmitting(comm)]_vars
    /\ []((trace.op = "Process" /\ trace.dispatched) =>
              (main.m_processing_request /\ transmitting(comm)) \/ trace.released)
    /\ []((trace.op = "Process" /\ trace.released) =>
              /\ ~comm.m_request_received
              /\ ~main.m_processing_request
              /\ ~transmitting(comm))

C25_Witness ==
    /\ trace.op = "Process"
    /\ trace.rr_before
    /\ trace.state_before = "Transmitting"
    /\ ~trace.dispatched
    /\ transmitting(comm)
    /\ main.m_processing_request
    /\ time # U32Zero
    /\ wire.nframes = 3
    /\ mem # InitMem
    /\ Len(wire.out) > 0
    /\ Len(wire.out) < Len(wire.expect)


\* C26: once pop_data has returned the last byte of a response the handler
\* is Idle and data_to_send() is 0, and a well-formed frame delivered next
\* through receive_data is accepted as the next request.
C26_NextFrameAfterLastPop ==
    /\ []((trace.op = "PopData" /\ wire.out = wire.expect) =>
              comm.m_state = "Idle" /\ data_to_send(comm) = 0)
    /\ [][(trace.op = "PopData" /\ wire.out = wire.expect
              /\ ReceiveStep /\ StartsFrame /\ FrameDone' /\ wire'.frame.crc_valid) =>
              FrameRequestExposed' /\ wire'.flips = 1]_vars


C28_ConnectNeedsMagic ==
    (trace.op = "Process" /\ trace.dispatched
        /\ trace.request.command_id = eCmdCommControl
        /\ trace.request.subfunction_id = eSubfnConnect
        /\ Len(trace.request.data) = 4
        /\ trace.request.data # CONNECT_MAGIC
        /\ ~trace.entry.connected) =>
        /\ trace.code # eResponseCode_OK
        /\ wire.expect[3] # eResponseCode_OK
        /\ ~comm.connected


\* C29: is_elapsed(timestamp, timeout) is true exactly when the total
\* advance d < 2^32 of the counter since the timestamp was taken is at least
\* the timeout, wherever the counter stood when the timestamp was taken,
\* also just before it wraps around; (now - timestamp) mod 2^32 is d.
C29_ElapsedWrapAround ==
    /\ U32Sub(time, trace.timestamp) = U32Make(trace.advance.hi, trace.advance.lo)
    /\ trace.op = "is_elapsed" =>
          (trace.elapsed <=>
              \/ trace.advance.hi > U32Hi(trace.timeout_us)
              \/ /\ trace.advance.hi = U32Hi(trace.timeout_us)
                 /\ trace.advance.lo >= U32Lo(trace.timeout_us))

C29_Witness ==
    /\ trace.op = "is_elapsed"
    /\ trace.timestamp = <<255, 255, 255, 255>>
    /\ time = U32Of(1)
    /\ trace.advance = Advance(0, 2)
    /\ trace.timeout_us = U32Of(3)
    /\ ~trace.elapsed
    /\ trace.steps = 2


\* the elements the Collection holds, oldest first
Stored(c) ==
    LET first == IF c.TYPE = "FIFO" THEN c._tail
                 ELSE (c._head + CollectionSize - c._nbItem) % CollectionSize
    IN  [k \in 1..c._nbItem |-> c._data[(first + k - 1) % CollectionSize]]

\* C30: under single pushes and pops a Collection of capacity N holds at
\* most N elements; a successful pop returns the oldest stored element of a
\* FIFO and the newest of a STACK; a push succeeds exactly when the
\* collection is not full and a pop exactly when it is not empty; a refused
\* push sets overrun, a refused pop sets underrun, and both leave the stored
\* elements and the count unchanged.
C30_BoundedCollection ==
    /\ comm._nbItem = Len(trace.stored)
    /\ comm._nbItem <= CollectionSize
    /\ Stored(comm) = trace.stored
    /\ trace.op = "push" =>
          /\ trace.success <=> Len(trace.stored_before) < CollectionSize
          /\ ~trace.success =>
                /\ comm._error.overrun
                /\ trace.stored = trace.stored_before
                /\ comm = [trace.before EXCEPT !._error.overrun = TRUE]
    /\ trace.op = "pop" =>
          /\ trace.success <=> trace.stored_before # <<>>
          /\ trace.success =>
                trace.element = IF comm.TYPE = "FIFO"
                                THEN trace.stored_before[1]
                                ELSE trace.stored_before[Len(trace.stored_before)]
          /\ ~trace.success =>
                /\ comm._error.underrun
                /\ trace.stored = trace.stored_before
                /\ comm = [trace.before EXCEPT !._error.underrun = TRUE]

C30_Witness ==
    /\ comm.TYPE = "STACK"
    /\ trace.op = "pop"
    /\ trace.success
    /\ trace.stored_before = <<1, 2, 3>>
    /\ trace.element = 3
    /\ comm._error.overrun
    /\ comm._error.underrun

C30_WitnessFifo ==
    /\ comm.TYPE = "FIFO"
    /\ trace.op = "pop"
    /\ trace.success
    /\ trace.stored_before = <<1, 2, 3>>
    /\ trace.element = 1
    /\ comm._tail = 0
    /\ comm._error.overrun

InCriticalSection(id) == wire.ctx[id].pc \notin {"idle", "enter"}

\* C31: with ATOMIC = true, every access of push and pop to the collection,
\* the full / empty test included, is made inside the critical section, so
\* at most one context is inside an operation; whenever no context is
\* inside, count equals the number of successful pushes minus successful
\* pops and the ring holds exactly those elements, in push order; a
\* successful pop returns the oldest of them (FIFO) or the newest (STACK),
\* and a push succeeds exactly when fewer than N elements are stored.
C31_AtomicPushPop ==
    /\ \A id \in Contexts : InCriticalSection(id) => wire.guard = id
    /\ Len(trace.stored) <= CollectionSize
    /\ wire.guard = "none" =>
          /\ comm._nbItem = Len(trace.stored)
          /\ Stored(comm) = trace.stored
    /\ trace.op = "push" => (trace.success <=> trace.count_before < CollectionSize)
    /\ trace.op = "pop" =>
          /\ trace.success <=> trace.count_before > 0
          /\ trace.success => trace.element = trace.expected

C31_Witness ==
    /\ wire.ATOMIC
    /\ trace.op = "push"
    /\ trace.id = "isr"
    /\ trace.success
    /\ trace.count_before = CollectionSize - 1
    /\ trace.stored[Len(trace.stored)] = 1
    /\ trace.stored[1] = 2
    /\ comm._head = 1
    /\ wire.ctx["main"].op = "pop"
    /\ wire.ctx["main"].pc = "enter"

C31_WitnessPop ==
    /\ comm.TYPE = "STACK"
    /\ trace.op = "pop"
    /\ trace.id = "main"
    /\ trace.success
    /\ trace.element = 2
    /\ trace.expected = 2
    /\ trace.count_before = CollectionSize
    /\ comm._data[0] = 1
    /\ comm._error.overrun
    /\ wire.ctx["isr"].op = "push"
    /\ wire.ctx["isr"].pc = "enter"

\* C32: every iteration of the byte loop of receive_data either consumes at
\* least one input byte or leaves the loop, the index never passes len, and
\* pop_data never produces more than len bytes.
C32_LoopsTerminate ==
    [][/\ LoopIteration =>
             /\ wire'.i <= wire.len
             /\ wire'.i > wire.i \/ ~rx_condition(comm', wire'.len, wire'.i)
       /\ LoopPopData /\ trace'.op = "PopData" => Len(trace'.popped) <= trace'.n]_vars

C33_Witness32 ==
    /\ trace.op = "decode"
    /\ trace.kind = "u32"
    /\ trace.x = [hi |-> 32768, lo |-> 255]
    /\ trace.buf = <<128, 0, 0, 255, 0, 0, 0, 0, 0, 0>>
    /\ trace.y = trace.x

\* the addresses of a block given as <<address, length>>
BlockBytes(b) == b[1]..(b[1] + b[2] - 1)

RangeBytes(range) == range.start..range.end

\* C34: no block that a MemoryControl request reads into the response or
\* writes to target memory contains an address of the forbidden range, and
\* no block it writes contains an address of the read-only range; target
\* memory keeps its initial bytes at every forbidden and read-only address.
C34_ProtectedBytesUntouched ==
    /\ \A k \in 1..Len(trace.reads) :
          BlockBytes(trace.reads[k]) \cap RangeBytes(ForbiddenRange) = {}
    /\ \A k \in 1..Len(trace.writes) :
          /\ BlockBytes(trace.writes[k]) \cap RangeBytes(ForbiddenRange) = {}
          /\ BlockBytes(trace.writes[k]) \cap RangeBytes(ReadonlyRange) = {}
    /\ \A a \in RangeBytes(ForbiddenRange) \cup RangeBytes(ReadonlyRange) : mem[a] = InitMem[a]

\* the blocks of a well-formed Write payload, with their data
RECURSIVE WriteRecordsOf(_)
WriteRecordsOf(data) ==
    IF Len(data) < AddrSize + 2 THEN <<>>
    ELSE LET len == data[AddrSize + 1] * 256 + data[AddrSize + 2]
         IN  <<[addr |-> decode_address_big_endian(data, 0), len |-> len,
                data |-> SubSeq(data, AddrSize + 3, Min(Len(data), AddrSize + 2 + len))]>>
             \o WriteRecordsOf(Drop(data, Min(Len(data), AddrSize + 2 + len)))

\* memory after the first n blocks have been copied, in order
RECURSIVE ApplyWrites(_, _, _)
ApplyWrites(m, blocks, n) ==
    IF n = 0 THEN m
    ELSE MemWrite(ApplyWrites(m, blocks, n - 1), blocks[n].addr, blocks[n].data)

\* a block the policy scan refuses
Refused(b) == Touches(b, ForbiddenRange) \/ Touches(b, ReadonlyRange)

\* the index of the first refused block, or one more than the number of blocks
FirstRefused(blocks) ==
    IF \E k \in 1..Len(blocks) : Refused(blocks[k])
    THEN CHOOSE k \in 1..Len(blocks) :
            Refused(blocks[k]) /\ \A j \in 1..(k - 1) : ~Refused(blocks[j])
    ELSE Len(blocks) + 1

\* C35: the process call that handles a well-formed Write whose block k is
\* the first refused one copies blocks 1..k-1 to target memory in request
\* order and nothing else, and answers Forbidden with an empty payload; a
\* Write with no refused block copies all its blocks and is answered OK.
C35_WriteBlockByBlock ==
    [][(trace'.op = "Process" /\ trace'.dispatched
            /\ trace'.request.command_id = eCmdMemoryControl
            /\ trace'.request.subfunction_id = eSubfnWrite
            /\ WellFormedWrite(trace'.request.data)) =>
         LET blocks == WriteRecordsOf(trace'.request.data)
             k == FirstRefused(blocks)
         IN  /\ mem' = ApplyWrites(mem, blocks, k - 1)
             /\ trace'.writes = [j \in 1..(k - 1) |-> <<blocks[j].addr, blocks[j].len>>]
             /\ trace'.sent
             /\ IF k <= Len(blocks)
                THEN /\ trace'.code = eResponseCode_Forbidden
                     /\ wire'.expect[3] = eResponseCode_Forbidden
                     /\ Len(wire'.expect) = 9
                ELSE /\ trace'.code = eResponseCode_OK
                     /\ Len(wire'.expect) = 9 + (AddrSize + 2) * Len(blocks)]_vars

C35_Witness ==
    /\ DispatchedWrite
    /\ Len(RequestBlocks) = 3
    /\ ~Refused(RequestBlocks[1])
    /\ Touches(RequestBlocks[2], ForbiddenRange)
    /\ ~Refused(RequestBlocks[3])
    /\ AnswerIsForbidden
    /\ trace.writes = <<<<8, 2>>>>
    /\ mem[8] = 221
    /\ mem[9] = 238
    /\ mem[ForbiddenRange.start] = InitMem[ForbiddenRange.start]
    /\ mem[12] = InitMem[12]

C35_WitnessThird ==
    /\ DispatchedWrite
    /\ Len(RequestBlocks) = 3
    /\ Touches(RequestBlocks[3], ReadonlyRange)
    /\ AnswerIsForbidden
    /\ trace.writes = <<<<8, 2>>, <<16, 1>>>>
    /\ mem[16] = 2
    /\ mem[ReadonlyRange.start + 1] = InitMem[ReadonlyRange.start + 1]

\* the request the CommHandler exposes
HeldRequest(c) ==
    [command_id |-> c.m_active_request.command_id,
     subfunction_id |-> c.m_active_request.subfunction_id,
     data_length |-> c.m_active_request.data_length,
     data |-> RequestData(c)]

\* C36: while a validated request waits to be taken (request_received set
\* and nothing dispatched yet), a receive_data call, whatever bytes it
\* carries and however long after the frame it comes, leaves
\* request_received set and the request record (command, subfunction,
\* data_length, data) as it was.
C36_ValidatedRequestHeld ==
    [][(ReceiveStep /\ comm.m_request_received /\ ~main.m_processing_request) =>
            /\ comm'.m_request_received
            /\ HeldRequest(comm') = HeldRequest(comm)]_vars

\* C37: a process call made while a validated request waits and no request
\* is being processed dispatches it and starts the transmission of its
\* response, whatever receive_data calls came after the last byte of the
\* frame; and a process call releases a request only if its response has
\* been transmitted.
C37_ValidatedRequestAnswered ==
    [][ProcessStep =>
          /\ (comm.m_request_received /\ ~main.m_processing_request) =>
                /\ trace'.dispatched
                /\ trace'.sent
                /\ comm'.m_state = "Transmitting"
                /\ wire'.expect # <<>>
          /\ (trace'.released /\ trace'.dispatched) => trace'.sent]_vars


\* n single pops in a row: the Collection afterwards and the elements the
\* successful ones returned, in order
RECURSIVE PopTimes(_, _)
PopTimes(c, n) ==
    IF n = 0 THEN [c |-> c, out |-> <<>>, success |-> TRUE]
    ELSE LET r    == pop(c, 0)
             rest == PopTimes(r.c, n - 1)
         IN  [c |-> rest.c,
              out |-> IF r.success THEN <<r.element>> \o rest.out ELSE rest.out,
              success |-> r.success /\ rest.success]

\* single pushes of the elements of src in a row
RECURSIVE PushTimes(_, _)
PushTimes(c, src) ==
    IF src = <<>> THEN [c |-> c, success |-> TRUE]
    ELSE LET r    == push(c, Head(src))
             rest == PushTimes(r.c, Tail(src))
         IN  [c |-> rest.c, success |-> r.success /\ rest.success]

\* C38: after any sequence of single and bulk pushes and pops and clear on
\* a FIFO or STACK Collection of capacity N, head and tail are within
\* 0..N-1 and the count within 0..N, and no call accessed the storage array
\* out of bounds; a bulk pop or push of n elements leaves the same state,
\* returns the same result and yields the same elements as n single
\* operations.
C38_BulkCollection ==
    /\ comm._head \in 0..(CollectionSize - 1)
    /\ comm._tail \in 0..(CollectionSize - 1)
    /\ comm._nbItem \in 0..CollectionSize
    /\ ~trace.oob
    /\ trace.op = "pop_n" =>
          \E r \in {PopTimes(trace.before, trace.n)} :
              /\ comm = r.c
              /\ trace.success = r.success
              /\ SubSeq(trace.dst, 1, Len(r.out)) = r.out
    /\ trace.op = "push_n" =>
          \E r \in {PushTimes(trace.before, trace.src)} :
              /\ comm = r.c
              /\ trace.success = r.success


\* C39: a Disconnect whose session id differs from the id of the connected
\* session is answered InvalidRequest, leaves the session connected with
\* its id and makes no disconnect pending; a Disconnect dispatched while no
\* session is connected is answered OK with an empty payload and leaves the
\* handler disconnected with nothing pending.
C39_DisconnectWrongIdOrIdle ==
    /\ (DispatchedDisconnect /\ ConnectedAtDispatch
          /\ trace.request.data # trace.entry.session_id) =>
            /\ trace.code = eResponseCode_InvalidRequest
            /\ trace.sent
            /\ wire.expect[3] = eResponseCode_InvalidRequest
            /\ comm.connected
            /\ comm.session_id = trace.entry.session_id
            /\ comm.last_heartbeat_ts = trace.entry.last_heartbeat_ts
            /\ ~main.m_disconnect_pending
    /\ (DispatchedDisconnect /\ ~ConnectedAtDispatch) =>
            /\ trace.code = eResponseCode_OK
            /\ trace.sent
            /\ SubSeq(wire.expect, 3, 5) = <<eResponseCode_OK, 0, 0>>
            /\ ~comm.connected
            /\ comm.session_id = U32Zero
            /\ ~main.m_disconnect_pending

C39_Witness ==
    /\ DispatchedDisconnect
    /\ ConnectedAtDispatch
    /\ trace.entry.session_id = <<0, 0, 0, 2>>
    /\ trace.request.data = <<0, 0, 0, 1>>
    /\ trace.code = eResponseCode_InvalidRequest
    /\ comm.connected

C39_WitnessIdle ==
    /\ DispatchedDisconnect
    /\ ~trace.entry.connected
    /\ trace.code = eResponseCode_OK
    /\ ~comm.connected


\* the entries of an array that are set form a prefix of it
SetPrefix(ranges, count) ==
    \A i \in DOMAIN ranges : ranges[i].set <=> i <= count

\* the set entries of an array, in order, as ranges
SetRanges(ranges) ==
    [i \in 1..Cardinality({k \in DOMAIN ranges : ranges[k].set}) |->
        [start |-> ranges[i].start, end |-> ranges[i].end]]

ConfigWellFormed(cfg, forbidden, readonly) ==
    /\ cfg.m_forbidden_range_count = Len(forbidden)
    /\ cfg.m_readonly_range_count = Len(readonly)
    /\ SetPrefix(cfg.m_forbidden_address_ranges, cfg.m_forbidden_range_count)
    /\ SetPrefix(cfg.m_readonly_address_ranges, cfg.m_readonly_range_count)
    /\ SetRanges(cfg.m_forbidden_address_ranges) = forbidden
    /\ SetRanges(cfg.m_readonly_address_ranges) = readonly
    /\ \A k \in 1..Len(forbidden) :
          touches_forbidden_region(cfg, [start_address |-> forbidden[k].start, length |-> 0])
    /\ \A k \in 1..Len(readonly) :
          touches_readonly_region(cfg, [start_address |-> readonly[k].start, length |-> 0])

\* C40: add_forbidden_address_range and add_readonly_address_range return
\* false and leave the Config unchanged once the array holds
\* SCRUTINY_..._ADDRESS_RANGE_COUNT entries, and return true and append
\* otherwise; in the integrator's Config and in the copy made by copy_from
\* the set entries are exactly the accepted ranges, in order, as a prefix
\* of each array, and the policy scan finds every one of them.
C40_ConfigRanges ==
    /\ ConfigWellFormed(comm, trace.forbidden, trace.readonly)
    /\ trace.op = "add_forbidden_address_range" =>
          /\ trace.result <=>
                trace.before.m_forbidden_range_count < SCRUTINY_FORBIDDEN_ADDRESS_RANGE_COUNT
          /\ ~trace.result => comm = trace.before
    /\ trace.op = "add_readonly_address_range" =>
          /\ trace.result <=>
                trace.before.m_readonly_range_count < SCRUTINY_READONLY_ADDRESS_RANGE_COUNT
          /\ ~trace.result => comm = trace.before
    /\ wire.initialised =>
          /\ ConfigWellFormed(main.m_config, trace.forbidden, trace.readonly)
          /\ main.m_config.max_bitrate = comm.max_bitrate

C40_Witness ==
    /\ trace.op = "add_forbidden_address_range"
    /\ ~trace.result
    /\ Len(trace.forbidden) = SCRUTINY_FORBIDDEN_ADDRESS_RANGE_COUNT
    /\ comm = trace.before

C40_WitnessCopy ==
    /\ wire.initialised
    /\ trace.op = "touches_readonly_region"
    /\ trace.result
    /\ Len(trace.readonly) = 2
    /\ trace.readonly[2] = ReadonlyRange
    /\ trace.block.start_address = ReadonlyRange.end
    /\ comm.m_readonly_address_ranges[3].set = FALSE
    /\ comm.m_readonly_address_ranges[3].start # 0


\* C40, the handler's side: every step of the agent leaves the Config the
\* handler copied at init as it was, and that copy is what copy_from makes
\* of the integrator's Config.
C40_ConfigKeptByAgent ==
    /\ main.m_config = InitConfig
    /\ main.m_config = copy_from(ConfigClear, InitConfig)

====
